---- MODULE Spec2Model ----
(***************************************************************************)
(* Timetable Wizard: the display-side correction engine, the semester      *)
(* normalisation, the dashboard with its guarded operations, the record    *)
(* pipeline and the tokenizer in front of it, the API client with its      *)
(* retries and rate limiters, and the authentication context, as state     *)
(* machines over JavaScript strings.                                       *)
(*                                                                         *)
(* A JavaScript string is a TLA+ string; its characters are read with      *)
(* SubSeq.  A JavaScript value that is not a string (undefined, null, a    *)
(* number, a boolean) is one of the reserved tokens of NonStrings, which   *)
(* are written in angle brackets; no input string of the model is equal    *)
(* to one of them.                                                         *)
(***************************************************************************)
EXTENDS Integers, Sequences, FiniteSets, TLC

VARIABLES
    value, valid, vpc,              \* isValidData: its argument, its result
    item, shown, shown2, cpc,       \* correction: record, corrected, re-corrected
    semA, semB, nedits, badge,      \* semester labels: configured, found, badge shown
    \* AppContent: its useState cells
    timetableData, config, isLoading, isScraperRunning, isSemesterUpdateRunning,
    status, message, lastUpdate, showSemesterManager, operationInProgress,
    \* AppContent: the world around it
    mounted,                        \* the mount effect has run
    clicks,                         \* button presses so far
    calls,                          \* API calls awaited, per continuation
    timers,                         \* setTimeout callbacks pending, per closure
    serverFilter,                   \* the semester list the backend stores
    \* one run of the record pipeline and the table drawn from its snapshot
    allowList, rows, kept, records, snapshot, table, ppc,
    \* the message body in front of the pipeline, and its tokenizer
    body, bodyIsHtml, lines, buffer, rowTexts, skipped,
    \* a record handed to the exported helpers of courseCorrections.ts, and
    \* what each of them returned
    rec, roomExtracted, roomFallback, titleGenerated,
    \* one call of retryRequest: who called it, the loop variable, the calls
    \* of requestFn made, what each attempt met, the delays slept, the
    \* position, the result
    caller, attempt, tries, outcomes, waits, rpc, result,
    \* the blocking rate limiter: the clock, the recorded last calls, the
    \* requests sent, what the latest call threw, the clock steps and the
    \* calls so far
    now, lastCalls, sent, thrown, ticks, ncalls,
    \* the throttling rate limiter: the clock, its record of calls, the
    \* requests released, the requests waiting in throttle, the clock steps
    \* and the requests so far
    wallClock, limiterCalls, released, sleepers, elapsed, issued,
    \* AuthProvider: its useState cells
    user, loading,
    \* AuthProvider: the world around it
    storedUser,                     \* the 'user' entry of localStorage
    urlParams,                      \* window.location.search
    effectRan,                      \* the mount effect has run
    listening,                      \* the message listener is registered
    restored,                       \* a stored session was looked for, once
    pendingLogins,                  \* apiService.login calls awaited
    loads,                          \* page loads so far
    authEvents,                     \* messages, logins and logouts so far
    \* a time string handed to parseTimeToMinutes: the clock clause it was
    \* written from, the string, the result
    clause, timeInput, parsedMinutes

vars_valid == <<value, valid, vpc>>
vars_corr  == <<item, shown, shown2, cpc>>
vars_norm  == <<semA, semB, nedits, badge>>
vars_app   == <<timetableData, config, isLoading, isScraperRunning,
                isSemesterUpdateRunning, status, message, lastUpdate,
                showSemesterManager, operationInProgress, mounted, clicks, calls,
                timers, serverFilter>>
vars_pipe  == <<allowList, rows, kept, records, snapshot, table, ppc>>
vars_tok   == <<body, bodyIsHtml, lines, buffer, rowTexts, skipped>>
vars_fn    == <<rec, roomExtracted, roomFallback, titleGenerated>>
vars_retry == <<caller, attempt, tries, outcomes, waits, rpc, result>>
vars_limit == <<now, lastCalls, sent, thrown, ticks, ncalls>>
vars_throttle == <<wallClock, limiterCalls, released, sleepers, elapsed, issued>>
vars_auth == <<user, loading, storedUser, urlParams, effectRan, listening, restored,
               pendingLogins, loads, authEvents>>
vars_time == <<clause, timeInput, parsedMinutes>>
vars == <<vars_valid, vars_corr, vars_norm, vars_app, vars_pipe, vars_tok, vars_fn,
                 vars_retry,
                 vars_limit,
                 vars_throttle,
                 vars_auth,
                 vars_time>>

\* what the actions of each specification leave alone
others_valid == <<vars_corr, vars_norm, vars_app, vars_pipe, vars_tok, vars_fn,
                 vars_retry,
                 vars_limit,
                 vars_throttle,
                 vars_auth,
                 vars_time>>
others_corr  == <<vars_valid, vars_norm, vars_app, vars_pipe, vars_tok, vars_fn,
                 vars_retry,
                 vars_limit,
                 vars_throttle,
                 vars_auth,
                 vars_time>>
others_norm  == <<vars_valid, vars_corr, vars_app, vars_pipe, vars_tok, vars_fn,
                 vars_retry,
                 vars_limit,
                 vars_throttle,
                 vars_auth,
                 vars_time>>
others_app   == <<vars_valid, vars_corr, vars_norm, vars_pipe, vars_tok, vars_fn,
                 vars_retry,
                 vars_limit,
                 vars_throttle,
                 vars_auth,
                 vars_time>>
others_pipe  == <<vars_valid, vars_corr, vars_norm, vars_app, vars_tok, vars_fn,
                 vars_retry,
                 vars_limit,
                 vars_throttle,
                 vars_auth,
                 vars_time>>
others_tok   == <<vars_valid, vars_corr, vars_norm, vars_app, vars_fn,
                 vars_retry,
                 vars_limit,
                 vars_throttle,
                 vars_auth,
                 vars_time>>
others_fn    == <<vars_valid, vars_corr, vars_norm, vars_app, vars_pipe, vars_tok,
                 vars_retry,
                 vars_limit,
                 vars_throttle,
                 vars_auth,
                 vars_time>>
others_retry == <<vars_valid, vars_corr, vars_norm, vars_app, vars_pipe, vars_tok, vars_fn,
                 vars_limit,
                 vars_throttle,
                 vars_auth,
                 vars_time>>
others_limit == <<vars_valid, vars_corr, vars_norm, vars_app, vars_pipe, vars_tok, vars_fn, vars_retry,
                 vars_throttle,
                 vars_auth,
                 vars_time>>
others_throttle == <<vars_valid, vars_corr, vars_norm, vars_app, vars_pipe, vars_tok, vars_fn, vars_retry, vars_limit,
                 vars_auth,
                 vars_time>>
others_auth == <<vars_valid, vars_corr, vars_norm, vars_app, vars_pipe, vars_tok, vars_fn, vars_retry, vars_limit, vars_throttle,
                 vars_time>>
others_time == <<vars_valid, vars_corr, vars_norm, vars_app, vars_pipe, vars_tok, vars_fn, vars_retry, vars_limit, vars_throttle, vars_auth>>

----------------------------------------------------------------------------
(* JavaScript values and string primitives *)

Undef     == "<undefined>"
Null      == "<null>"
NumZero   == "<0>"
NumPos    == "<301>"
BoolFalse == "<false>"
BoolTrue  == "<true>"
NonStrings == {Undef, Null, NumZero, NumPos, BoolFalse, BoolTrue}

IsString(v) == v \notin NonStrings

\* !v of JavaScript: undefined, null, 0, false and the empty string
Falsy(v) == v \in {Undef, Null, NumZero, BoolFalse, ""}

\* a value that may be null or undefined: None, or Some(x)
None == <<>>
Some(x) == <<x>>
Val(o) == o[1]

\* F(v) with v evaluated once: a const declaration of the program
Let(v, F(_)) == CHOOSE r \in {F(x) : x \in {v}} : TRUE

\* a || b
OrElse(a, b) == Let(a, LAMBDA x : IF Falsy(x) THEN b ELSE x)

UPPER == "ABCDEFGHIJKLMNOPQRSTUVWXYZ"
LOWER == "abcdefghijklmnopqrstuvwxyz"
DIGITS == "0123456789"

CharAt(s, i) == SubSeq(s, i, i)

\* position of character c in alphabet a, 0 when absent
IndexOf(a, c) ==
    IF \E i \in 1..Len(a) : CharAt(a, i) = c
    THEN CHOOSE i \in 1..Len(a) : CharAt(a, i) = c
    ELSE 0

UpperSet == {CharAt(UPPER, i) : i \in 1..Len(UPPER)}
LowerSet == {CharAt(LOWER, i) : i \in 1..Len(LOWER)}
DigitSet == {CharAt(DIGITS, i) : i \in 1..Len(DIGITS)}
LowerOf  == [c \in UpperSet |-> CharAt(LOWER, IndexOf(UPPER, c))]
UpperOf  == [c \in LowerSet |-> CharAt(UPPER, IndexOf(LOWER, c))]

IsUpper(c) == c \in UpperSet
IsLower(c) == c \in LowerSet
IsDigit(c) == c \in DigitSet
IsSpace(c) == c \in {" ", "\t", "\n"}
\* \w of a regular expression
IsWord(c)  == IsUpper(c) \/ IsLower(c) \/ IsDigit(c) \/ c = "_"

LowerCh(c) == IF IsUpper(c) THEN LowerOf[c] ELSE c
UpperCh(c) == IF IsLower(c) THEN UpperOf[c] ELSE c

RECURSIVE toLowerCase(_)
toLowerCase(s) ==
    IF s = "" THEN "" ELSE LowerCh(Head(s)) \o toLowerCase(Tail(s))

RECURSIVE toUpperCase(_)
toUpperCase(s) ==
    IF s = "" THEN "" ELSE UpperCh(Head(s)) \o toUpperCase(Tail(s))

RECURSIVE trimStart(_)
trimStart(s) ==
    IF s # "" /\ IsSpace(Head(s)) THEN trimStart(Tail(s)) ELSE s

RECURSIVE trimEnd(_)
trimEnd(s) ==
    IF s # "" /\ IsSpace(CharAt(s, Len(s)))
    THEN trimEnd(SubSeq(s, 1, Len(s) - 1))
    ELSE s

\* String.prototype.trim
trim(s) == trimEnd(trimStart(s))

\* s.startsWith(p) at position i (1-based), case-sensitive
StartsAt(s, i, p) ==
    /\ i >= 1
    /\ i + Len(p) - 1 <= Len(s)
    /\ SubSeq(s, i, i + Len(p) - 1) = p

\* s.includes(p)
includes(s, p) == \E x \in {s} : \E i \in 1..(Len(x) + 1) : StartsAt(x, i, p)

endsWith(s, p) == Len(s) >= Len(p) /\ StartsAt(s, Len(s) - Len(p) + 1, p)

----------------------------------------------------------------------------
(* Regular expressions.  A pattern is a sequence of alternatives, tried in   *)
(* order at each position; an alternative is a sequence of atoms <<kind,     *)
(* text>>.  Every quantified atom of the program's patterns is followed by   *)
(* an atom or a boundary that its own class cannot satisfy, so the greedy    *)
(* match is the only one and no backtracking is modelled.                    *)

IsWordAt(s, k) == k >= 1 /\ k <= Len(s) /\ IsWord(CharAt(s, k))

\* \b between positions i-1 and i
Boundary(s, i) == IsWordAt(s, i - 1) # IsWordAt(s, i)

InClass(kind, c) ==
    CASE kind = "space" -> IsSpace(c)
      [] kind = "digit" -> IsDigit(c)
      [] kind = "word"  -> IsWord(c)
      [] kind = "alpha" -> IsUpper(c) \/ IsLower(c)
      [] kind = "upper" -> IsUpper(c)
      [] OTHER -> FALSE

\* end (exclusive) of the longest run of class kind starting at i
RunEnd(s, i, kind) ==
    CHOOSE j \in i..(Len(s) + 1) :
        /\ \A k \in i..(j - 1) : InClass(kind, CharAt(s, k))
        /\ (j = Len(s) + 1 \/ ~InClass(kind, CharAt(s, j)))

\* position after atom a matched at i, 0 when it does not match there
AtomEnd(s, i, a) ==
    LET kind == a[1]
        text == a[2]
    IN  CASE kind = "lit"  ->   \* a literal under the i flag
                IF i + Len(text) - 1 <= Len(s)
                   /\ toLowerCase(SubSeq(s, i, i + Len(text) - 1)) = toLowerCase(text)
                THEN i + Len(text) ELSE 0
          [] kind = "cs"   ->   \* a literal, case-sensitive
                IF StartsAt(s, i, text) THEN i + Len(text) ELSE 0
          [] kind = "space*" -> RunEnd(s, i, "space")
          [] kind \in {"space+", "digit+", "word+", "upper+"} ->
                LET cl == SubSeq(kind, 1, Len(kind) - 1)
                    e  == RunEnd(s, i, cl)
                IN  IF e > i THEN e ELSE 0
          [] kind = "digit3" ->
                IF i + 2 <= Len(s) /\ \A k \in i..(i + 2) : IsDigit(CharAt(s, k))
                THEN i + 3 ELSE 0
          [] kind = "alpha2" ->
                IF i + 1 <= Len(s) /\ \A k \in i..(i + 1) : InClass("alpha", CharAt(s, k))
                THEN i + 2 ELSE 0
          [] OTHER -> 0

RECURSIVE AtomsEnd(_, _, _, _)
AtomsEnd(s, i, atoms, k) ==
    IF k > Len(atoms) THEN i
    ELSE Let(AtomEnd(s, i, atoms[k]),
             LAMBDA e : IF e = 0 THEN 0 ELSE AtomsEnd(s, e, atoms, k + 1))

\* end of the match of \b(alternative)\b at i, 0 when none
WordAltEnd(s, i, atoms) ==
    Let(AtomsEnd(s, i, atoms, 1),
        LAMBDA e : IF Boundary(s, i) /\ e > 0 /\ Boundary(s, e) THEN e ELSE 0)

RECURSIVE FirstAltEnd(_, _, _, _)
FirstAltEnd(s, i, alts, k) ==
    IF k > Len(alts) THEN 0
    ELSE Let(WordAltEnd(s, i, alts[k]),
             LAMBDA e : IF e > 0 THEN e ELSE FirstAltEnd(s, i, alts, k + 1))

\* s.match(/\b(alts)\b/)[1]: the leftmost match, Null when there is none
WordMatch(s, alts) ==
    LET starts == {i \in 1..Len(s) : FirstAltEnd(s, i, alts, 1) > 0}
    IN  IF starts = {} THEN Null
        ELSE LET i == CHOOSE m \in starts : \A n \in starts : m <= n
             IN  SubSeq(s, i, FirstAltEnd(s, i, alts, 1) - 1)

\* /lit/i.test(s)
testCI(s, lit) == includes(toLowerCase(s), toLowerCase(lit))

----------------------------------------------------------------------------
(* courseCorrections.ts: the validity predicate *)

\* the naive blank check: "-" counts as missing
isValidData_dashBlank(v) ==
    /\ ~Falsy(v)
    /\ v \notin {"null", "undefined"}
    /\ IsString(v)
    /\ trim(v) \notin {"", "-"}

isValidData(v) ==
    IF Falsy(v) THEN FALSE
    ELSE IF v = "null" \/ v = "undefined" THEN FALSE
    ELSE IF ~IsString(v) THEN FALSE
    ELSE IF trim(v) = "" THEN FALSE
    ELSE IF trim(v) = "-" THEN TRUE
    ELSE TRUE

----------------------------------------------------------------------------
(* courseCorrections.ts: tables *)

CorrectionFields == {"time", "room", "campus", "faculty", "course_title"}

\* an entry's missing field is Undef
COURSE_CORRECTIONS ==
    [c \in {"CSCL 2205"} |->
        [time         |-> "02:00 PM - 05:00 PM",
         room         |-> "Lab 02",
         campus       |-> "SZABIST University Campus",
         faculty      |-> Undef,
         course_title |-> "Lab: Operating Systems"]]

LAB_defaultTime == "TBD (Lab Session - 3 hours)"

LAB_defaultRoom(courseTitle) ==
    IF testCI(courseTitle, "computer") \/ testCI(courseTitle, "cs") THEN "Computer Lab (TBD)"
    ELSE IF testCI(courseTitle, "digital") THEN "Digital Lab"
    ELSE "Lab (TBD)"

ONLINE_titlePattern(s) ==
    testCI(s, "online") \/ testCI(s, "virtual") \/ testCI(s, "distance")

\* Object.entries(CAMPUS_PATTERNS), in insertion order
CAMPUS_PATTERNS ==
    << <<"BS",  "SZABIST University Campus">>,
       <<"MS",  "SZABIST University Campus">>,
       <<"MBA", "SZABIST University Campus">>,
       <<"BBA", "SZABIST University Campus">> >>

DEPARTMENT_NAMES ==
    [d \in {"CS", "CSCL", "SE", "SECL", "MATH", "ENG", "PHY", "CHEM", "BBA", "MBA",
            "EE", "CE", "IT"} |->
        CASE d = "CS"   -> "Computer Science"
          [] d = "CSCL" -> "Computer Science Lab"
          [] d = "SE"   -> "Software Engineering"
          [] d = "SECL" -> "Software Engineering Lab"
          [] d = "MATH" -> "Mathematics"
          [] d = "ENG"  -> "English"
          [] d = "PHY"  -> "Physics"
          [] d = "CHEM" -> "Chemistry"
          [] d = "BBA"  -> "Business Administration"
          [] d = "MBA"  -> "Master of Business Administration"
          [] d = "EE"   -> "Electrical Engineering"
          [] d = "CE"   -> "Computer Engineering"
          [] d = "IT"   -> "Information Technology"]

----------------------------------------------------------------------------
(* courseCorrections.ts: the raw-text re-scan *)

RECURSIVE join(_, _)
\* Array.prototype.join
join(cells, sep) ==
    IF cells = <<>> THEN ""
    ELSE IF Len(cells) = 1 THEN cells[1]
    ELSE cells[1] \o sep \o join(Tail(cells), sep)

\* item.full_text || item.raw_cells?.join(' ') || ''
\* (an absent raw_cells is the empty array: both give a falsy join)
rawTextOf(it) == OrElse(it.full_text, OrElse(join(it.raw_cells, " "), ""))

\* roomPatterns of extractRoomFromRawData, each /\b(...)\b/
extractRoomPatterns ==
    << << << <<"lit", "Lab">>, <<"space+", "">>, <<"digit+", "">> >> >>,
       << << <<"lit", "Digital">>, <<"space+", "">>, <<"lit", "Lab">> >> >>,
       << << <<"lit", "Computer">>, <<"space+", "">>, <<"lit", "Lab">> >> >>,
       << << <<"lit", "Room">>, <<"space+", "">>, <<"digit+", "">> >> >>,
       << << <<"alpha2", "">>, <<"cs", "-">>, <<"digit+", "">> >> >>,
       << << <<"digit3", "">> >> >>,
       << << <<"lit", "TBD">> >> >>,
       << << <<"lit", "Online">> >>, << <<"lit", "Virtual">> >> >>,
       << << <<"lit", "Cancelled">> >>, << <<"lit", "Canceled">> >> >>,
       << << <<"lit", "Lab">>, <<"space+", "">>, <<"word+", "">> >> >> >>

\* roomPatterns of generateRoomFallback
fallbackRoomPatterns ==
    << << << <<"lit", "Lab">>, <<"space+", "">>, <<"digit+", "">> >> >>,
       << << <<"lit", "Digital">>, <<"space+", "">>, <<"lit", "Lab">> >> >>,
       << << <<"lit", "Computer">>, <<"space+", "">>, <<"lit", "Lab">> >> >>,
       << << <<"digit3", "">> >> >>,
       << << <<"lit", "NB-">>, <<"digit+", "">> >>,
          << <<"lit", "OB-">>, <<"digit+", "">> >> >>,
       << << <<"lit", "TBD">> >> >>,
       << << <<"lit", "Lab">>, <<"space+", "">>, <<"word+", "">> >> >> >>

RECURSIVE firstRoomMatch(_, _, _)
\* the for loop over roomPatterns: the first pattern that matches decides
firstRoomMatch(rawText, patterns, k) ==
    IF k > Len(patterns) THEN Null
    ELSE Let(WordMatch(rawText, patterns[k]),
             LAMBDA room :
                IF room # Null
                THEN (IF toUpperCase(room) = "TBD" THEN "Online" ELSE room)
                ELSE firstRoomMatch(rawText, patterns, k + 1))

extractRoomFromRawData(it) ==
    Let(rawTextOf(it),
        LAMBDA rawText :
            IF Falsy(rawText) THEN Null
            ELSE firstRoomMatch(rawText, extractRoomPatterns, 1))

----------------------------------------------------------------------------
(* courseCorrections.ts: heuristic defaults *)

\* course.match(/([A-Z]+)\s*(\d+)/): <<dept, num>>, <<>> when no match
courseMatch(course) ==
    LET deptEnd(i) == AtomEnd(course, i, <<"upper+", "">>)
        numStart(i) == RunEnd(course, deptEnd(i), "space")
        numEnd(i) == AtomEnd(course, numStart(i), <<"digit+", "">>)
        ok(i) == deptEnd(i) > 0 /\ numEnd(i) > 0
        starts == {i \in 1..Len(course) : ok(i)}
    IN  IF starts = {} THEN <<>>
        ELSE LET i == CHOOSE m \in starts : \A n \in starts : m <= n
             IN  << SubSeq(course, i, deptEnd(i) - 1),
                    SubSeq(course, numStart(i), numEnd(i) - 1) >>

generateCourseTitle(it) ==
    Let(OrElse(it.course, ""), LAMBDA course : Let(courseMatch(course), LAMBDA m :
        IF Falsy(course) THEN "Course Title Not Available"
        ELSE IF m # <<>>
        THEN LET dept == m[1]
                 num == m[2]
                 deptName == IF dept \in DOMAIN DEPARTMENT_NAMES
                             THEN DEPARTMENT_NAMES[dept] ELSE dept
                 baseDept == SubSeq(dept, 1, Len(dept) - 1)
                 baseName == IF baseDept \in DOMAIN DEPARTMENT_NAMES
                             THEN DEPARTMENT_NAMES[baseDept] ELSE baseDept
             IN  IF endsWith(dept, "L")
                 THEN baseName \o " Lab " \o num
                 ELSE deptName \o " Course " \o num
        ELSE "Course: " \o course))

generateTimeFallback(it) ==
    IF testCI(OrElse(it.course, "") \o " " \o OrElse(it.course_title, ""), "Lab")
    THEN LAB_defaultTime
    ELSE "TBD"

\* the loop over roomPatterns of generateRoomFallback, Null when it ends
\* without a return
fallbackRoomScan(it) ==
    Let(rawTextOf(it),
        LAMBDA rawText :
            IF Falsy(rawText) THEN Null
            ELSE firstRoomMatch(rawText, fallbackRoomPatterns, 1))

generateRoomFallback(it) ==
    Let(fallbackRoomScan(it), LAMBDA found :
    Let(OrElse(it.course_title, ""), LAMBDA courseTitle :
    Let(OrElse(it.course, "") \o " " \o courseTitle, LAMBDA combinedText :
        IF found # Null THEN found
        ELSE IF ONLINE_titlePattern(combinedText) THEN "Online"
        ELSE IF testCI(combinedText, "Lab") THEN LAB_defaultRoom(courseTitle)
        ELSE "TBD")))

RECURSIVE campusByPattern(_, _)
campusByPattern(semester, k) ==
    IF k > Len(CAMPUS_PATTERNS) THEN "SZABIST University Campus"
    ELSE IF includes(toUpperCase(semester), CAMPUS_PATTERNS[k][1])
    THEN CAMPUS_PATTERNS[k][2]
    ELSE campusByPattern(semester, k + 1)

generateCampusFallback(it) ==
    campusByPattern(OrElse(it.semester, OrElse(it.class_section, "")), 1)

\* COURSE_CORRECTIONS[course][field] when course is in the table
correctionOf(course, field) ==
    IF course \in DOMAIN COURSE_CORRECTIONS
    THEN COURSE_CORRECTIONS[course][field] ELSE Undef

\* the switch at the end of getCorrectedValue
patternCorrection(field, it) ==
    CASE field = "course_title" -> generateCourseTitle(it)
      [] field = "time"         -> generateTimeFallback(it)
      [] field = "room"         -> generateRoomFallback(it)
      [] field = "campus"       -> generateCampusFallback(it)
      [] field = "faculty"      -> "TBD"
      [] OTHER                  -> Null

\* string | null
getCorrectedValue(field, it) ==
    Let(correctionOf(OrElse(it.course, ""), field), LAMBDA correction :
        IF ~Falsy(correction) THEN correction
        ELSE IF field = "room"
        THEN Let(extractRoomFromRawData(it), LAMBDA extractedRoom :
                 IF ~Falsy(extractedRoom) THEN extractedRoom
                 ELSE patternCorrection(field, it))
        ELSE patternCorrection(field, it))

----------------------------------------------------------------------------
(* TimetableTable.tsx: the display helpers, which are the correction step *)

getDisplayTime(it) ==
    IF isValidData(it.time) THEN it.time
    ELSE OrElse(getCorrectedValue("time", it), "-")

getDisplayRoom(it) ==
    Let(IF ~Falsy(it.room) /\ toUpperCase(it.room) = "TBD" THEN "Online" ELSE it.room,
        LAMBDA room :
            IF it.course = "CSCL 2205"
            THEN OrElse(getCorrectedValue("room", it), OrElse(room, "TBD"))
            ELSE IF isValidData(room) THEN room
            ELSE Let(extractRoomFromRawData(it), LAMBDA extractedRoom :
                     IF ~Falsy(extractedRoom) THEN extractedRoom
                     ELSE OrElse(getCorrectedValue("room", it), "TBD")))

getDisplayCampus(it) ==
    IF isValidData(it.campus)
    THEN Let(trim(it.campus), LAMBDA campusStr :
             IF includes(toLowerCase(campusStr), "szabist")
                /\ includes(toLowerCase(campusStr), "university")
             THEN "SZABIST University Campus"
             ELSE campusStr)
    ELSE OrElse(getCorrectedValue("campus", it), "-")

\* the validity check dropped: the fallback always wins
getDisplayFaculty_noCheck(it) ==
    OrElse(getCorrectedValue("faculty", it), "TBD")

getDisplayFaculty(it) ==
    IF isValidData(it.faculty) THEN it.faculty
    ELSE OrElse(getCorrectedValue("faculty", it), "TBD")

getDisplayCourseTitle(it) ==
    IF isValidData(it.course_title) THEN it.course_title
    ELSE generateCourseTitle(it)

\* the record a table row shows: the five corrected fields, the rest as given
correct(it) ==
    [it EXCEPT !.time         = getDisplayTime(it),
               !.room         = getDisplayRoom(it),
               !.campus       = getDisplayCampus(it),
               !.faculty      = getDisplayFaculty(it),
               !.course_title = getDisplayCourseTitle(it)]

----------------------------------------------------------------------------
(* SummaryStats: semester normalisation and the badge lookup *)

RECURSIVE removeAll(_)
\* s.replace(/\s|-/g, '')
removeAll(s) ==
    IF s = "" THEN ""
    ELSE IF IsSpace(Head(s)) \/ Head(s) = "-" THEN removeAll(Tail(s))
    ELSE Head(s) \o removeAll(Tail(s))

RECURSIVE removeFirst(_)
\* s.replace(/\s|-/, ''): without the g flag only the first match goes
removeFirst(s) ==
    IF s = "" THEN ""
    ELSE IF IsSpace(Head(s)) \/ Head(s) = "-" THEN Tail(s)
    ELSE Head(s) \o removeFirst(Tail(s))

normalizeSemester_firstOnly(s) == toLowerCase(removeFirst(s))

normalizeSemester(s) == toLowerCase(removeAll(s))

RECURSIVE findKey(_, _, _)
\* Object.keys(semesterBreakdown).find(key => normalizeSemester(key) === normalizedSemester)
findKey(keys, semester, k) ==
    IF k > Len(keys) THEN Undef
    ELSE IF normalizeSemester(keys[k]) = normalizeSemester(semester) THEN keys[k]
    ELSE findKey(keys, semester, k + 1)

\* the badge of one configured semester: its count, or "Missing"
semesterBadge(keys, semester) ==
    IF ~Falsy(findKey(keys, semester, 1)) THEN "count" ELSE "missing"

----------------------------------------------------------------------------
(* Specification SpecValid: isValidData applied to one value *)

MaxPad == 1

RECURSIVE Pads(_)
\* strings of at most n whitespace characters
Pads(n) ==
    IF n = 0 THEN {""}
    ELSE Pads(n - 1) \cup {p \o c : p \in Pads(n - 1), c \in {" ", "\t"}}

ValueCores == {"", "-", "null", "undefined", "NULL", "TBD", "Lab 02", "n"}

ValueInputs ==
    NonStrings \cup {l \o c \o r : l \in Pads(MaxPad), c \in ValueCores, r \in Pads(MaxPad)}

NoItem ==
    [course |-> Undef, course_title |-> Undef, faculty |-> Undef, room |-> Undef,
     time |-> Undef, semester |-> Undef, campus |-> Undef, class_section |-> Undef,
     full_text |-> Undef, raw_cells |-> <<>>]

ValidIdle == value = "" /\ valid = FALSE /\ vpc = "idle"
CorrIdle  == item = NoItem /\ shown = NoItem /\ shown2 = NoItem /\ cpc = "idle"
NormIdle  == semA = "" /\ semB = "" /\ nedits = 0 /\ badge = "idle"
AppIdle ==
    /\ timetableData = None /\ config = None /\ lastUpdate = Null
    /\ isLoading = FALSE /\ isScraperRunning = FALSE
    /\ isSemesterUpdateRunning = FALSE /\ operationInProgress = FALSE
    /\ status = "idle" /\ message = "" /\ showSemesterManager = FALSE
    /\ mounted = FALSE /\ clicks = 0 /\ calls = <<>> /\ timers = <<>>
    /\ serverFilter = None
PipeIdle ==
    /\ allowList = <<>> /\ rows = <<>> /\ kept = <<>> /\ records = <<>>
    /\ snapshot = None /\ table = <<>> /\ ppc = "idle"
TokIdle ==
    /\ body = "" /\ bodyIsHtml = FALSE /\ lines = <<>> /\ buffer = None
    /\ rowTexts = <<>> /\ skipped = 0
FnIdle ==
    /\ rec = None /\ roomExtracted = None /\ roomFallback = None
    /\ titleGenerated = None
RetryIdle ==
    /\ caller = "" /\ attempt = 0 /\ tries = 0 /\ outcomes = <<>> /\ waits = <<>> /\ rpc = "idle" /\ result = None
LimitIdle ==
    /\ now = 0 /\ lastCalls = <<>> /\ sent = <<>> /\ thrown = None /\ ticks = 0 /\ ncalls = 0
ThrottleIdle ==
    /\ wallClock = 0 /\ limiterCalls = <<>> /\ released = <<>> /\ sleepers = <<>> /\ elapsed = 0 /\ issued = 0
AuthIdle ==
    /\ user = None /\ loading = FALSE /\ storedUser = None /\ urlParams = ""
    /\ effectRan = FALSE /\ listening = FALSE /\ restored = FALSE
    /\ pendingLogins = 0 /\ loads = 0 /\ authEvents = 0
TimeIdle ==
    /\ clause = None /\ timeInput = "" /\ parsedMinutes = None

ValidInit ==
    /\ value \in ValueInputs
    /\ valid = FALSE
    /\ vpc = "in"

Validate ==
    /\ vpc = "in"
    /\ valid' = isValidData(value)
    /\ vpc' = "out"
    /\ UNCHANGED <<value, others_valid>>

InitValid ==
    /\ ValidInit /\ CorrIdle /\ NormIdle /\ AppIdle /\ PipeIdle /\ TokIdle
    /\ FnIdle /\ RetryIdle /\ LimitIdle /\ ThrottleIdle /\ AuthIdle
    /\ TimeIdle

NextValid == Validate

SpecValid == InitValid /\ [][NextValid]_vars

\* C5: isValidData(value) is true iff value is a string that, trimmed, is
\* non-empty and is neither "null" nor "undefined"; "-" is present and a
\* whitespace-padded "null" or "undefined" is not.
C5_ValidityPredicate ==
    vpc = "out" =>
        (valid <=> (IsString(value) /\ trim(value) \notin {"", "null", "undefined"}))

----------------------------------------------------------------------------
(* Specification SpecCorrect: the correction step applied to one record,   *)
(* and then applied again to its own output                                *)

CourseInputs  == {"CSCL 2205", "CS 101", "SECL 2404", Undef}
TitleInputs   == {Undef, "Digital Logic", "Virtual Reality"}
TimeInputs    == {Undef, "-", "08:00 AM - 11:00 AM"}
RoomInputs    == {Undef, "-", "TBD", "tbd", "301", "null"}
CampusInputs  == {Undef, " Main Campus ", "SZABIST university karachi"}
FacultyInputs == {Undef, "Sarwat Nadeem"}
SemesterInputs == {Undef, "BS(AI)-3A"}
RawTextInputs == {Undef, "CS 101 NB-01 Lab 05", "Room TBD"}
RawCellInputs == {<<>>, <<"CS 101", "Digital Lab">>}

ItemInputs ==
    [course : CourseInputs, course_title : TitleInputs, faculty : FacultyInputs,
     room : RoomInputs, time : TimeInputs, semester : SemesterInputs,
     campus : CampusInputs, class_section : {Undef},
     full_text : RawTextInputs, raw_cells : RawCellInputs]

CorrInit ==
    /\ item \in ItemInputs
    /\ shown = item
    /\ shown2 = item
    /\ cpc = "in"

\* a row is rendered: every display helper reads the record as given
Correct ==
    /\ cpc = "in"
    /\ shown' = correct(item)
    /\ cpc' = "once"
    /\ UNCHANGED <<item, shown2, others_corr>>

\* the corrected record is fed to the correction step again
Recorrect ==
    /\ cpc = "once"
    /\ shown2' = correct(shown)
    /\ cpc' = "twice"
    /\ UNCHANGED <<item, shown, others_corr>>

InitCorrect ==
    /\ CorrInit /\ ValidIdle /\ NormIdle /\ AppIdle /\ PipeIdle /\ TokIdle
    /\ FnIdle /\ RetryIdle /\ LimitIdle /\ ThrottleIdle /\ AuthIdle
    /\ TimeIdle

NextCorrect == Correct \/ Recorrect

SpecCorrect == InitCorrect /\ [][NextCorrect]_vars

\* C1: correction is idempotent: correcting the corrected record returns it
\* unchanged.
C1_Idempotent == cpc = "twice" => shown2 = shown

\* C2: a room that is the literal "-" is never output as "TBD", and a room
\* that is the literal "TBD" is never output as "-".
C2_SentinelDistinction ==
    cpc # "in" =>
        /\ (item.room = "-" => shown.room # "TBD")
        /\ (item.room = "TBD" => shown.room # "-")

C2_Witness ==
    /\ cpc = "once"
    /\ item.room = "-"
    /\ item.course # "CSCL 2205"
    /\ shown.room = "-"

\* C3 as claimed: every field that is present under the validity predicate is
\* carried over exactly.
C3_NeverOverwritesValid ==
    cpc # "in" =>
        \A f \in CorrectionFields : isValidData(item[f]) => shown[f] = item[f]

\* C3, amended: a present time, faculty or course_title is carried over
\* exactly; a present room is carried over exactly unless the course is
\* CSCL 2205 (the override's room is shown) or the room is "TBD" in any
\* letter case ("Online" is shown); a present campus is shown trimmed, or as
\* "SZABIST University Campus" when it contains "szabist" and "university".
C3_KeepsValidAmended ==
    cpc # "in" =>
        /\ \A f \in {"time", "faculty", "course_title"} :
              isValidData(item[f]) => shown[f] = item[f]
        /\ isValidData(item.room) =>
              shown.room =
                  IF item.course = "CSCL 2205" THEN "Lab 02"
                  ELSE IF toUpperCase(item.room) = "TBD" THEN "Online"
                  ELSE item.room
        /\ isValidData(item.campus) =>
              shown.campus =
                  IF testCI(item.campus, "szabist") /\ testCI(item.campus, "university")
                  THEN "SZABIST University Campus"
                  ELSE trim(item.campus)

C3_Witness ==
    /\ cpc = "once"
    /\ item.course = "CSCL 2205"
    /\ item.room = "301"
    /\ item.time = "08:00 AM - 11:00 AM"
    /\ shown.time = item.time
    /\ shown.room = "Lab 02"

\* C4: an absent or invalid field takes its value from the first source that
\* supplies one, in the order override table, raw-text re-scan, heuristic
\* default; in particular a course's override is never passed over.
C4_Precedence ==
    cpc # "in" =>
        \A f \in CorrectionFields :
            ~isValidData(item[f]) =>
                LET course == OrElse(item.course, "")
                    override == IF course \in DOMAIN COURSE_CORRECTIONS
                                THEN COURSE_CORRECTIONS[course][f] ELSE Undef
                    rescan == IF f = "room" THEN extractRoomFromRawData(item) ELSE Null
                    default == CASE f = "course_title" -> generateCourseTitle(item)
                                 [] f = "time"         -> generateTimeFallback(item)
                                 [] f = "room"         -> generateRoomFallback(item)
                                 [] f = "campus"       -> generateCampusFallback(item)
                                 [] f = "faculty"      -> "TBD"
                IN  shown[f] = IF ~Falsy(override) THEN override
                               ELSE IF ~Falsy(rescan) THEN rescan
                               ELSE default

----------------------------------------------------------------------------
(* Specification SpecNorm: a configured semester label, and a spelling of  *)
(* it that the timetable data carries, varied in letter case, whitespace   *)
(* and hyphens                                                             *)

MaxEdits == 2

LabelInputs == {"BS(SE)-5C", "bs ai 3a", "MBA-2"}
Separators == {" ", "\t", "-"}

ToggleCh(c) == IF IsUpper(c) THEN LowerCh(c) ELSE UpperCh(c)

NormInit ==
    /\ semA \in LabelInputs
    /\ semB = semA
    /\ nedits = 0
    /\ badge = "none"

\* the letter at position i changes case
VaryCase ==
    /\ badge = "none" /\ nedits < MaxEdits
    /\ \E i \in 1..Len(semB) :
          /\ IsUpper(CharAt(semB, i)) \/ IsLower(CharAt(semB, i))
          /\ semB' = SubSeq(semB, 1, i - 1) \o ToggleCh(CharAt(semB, i))
                        \o SubSeq(semB, i + 1, Len(semB))
    /\ nedits' = nedits + 1
    /\ UNCHANGED <<semA, badge, others_norm>>

\* a whitespace or hyphen character is inserted before position i
InsertSeparator ==
    /\ badge = "none" /\ nedits < MaxEdits
    /\ \E i \in 1..(Len(semB) + 1), c \in Separators :
          semB' = SubSeq(semB, 1, i - 1) \o c \o SubSeq(semB, i, Len(semB))
    /\ nedits' = nedits + 1
    /\ UNCHANGED <<semA, badge, others_norm>>

\* the whitespace or hyphen character at position i is dropped
DeleteSeparator ==
    /\ badge = "none" /\ nedits < MaxEdits
    /\ \E i \in 1..Len(semB) :
          /\ CharAt(semB, i) \in Separators
          /\ semB' = SubSeq(semB, 1, i - 1) \o SubSeq(semB, i + 1, Len(semB))
    /\ nedits' = nedits + 1
    /\ UNCHANGED <<semA, badge, others_norm>>

\* SummaryStats renders the badge of semA against a breakdown keyed by semB
RenderBadge ==
    /\ badge = "none"
    /\ badge' = semesterBadge(<<semB>>, semA)
    /\ UNCHANGED <<semA, semB, nedits, others_norm>>

InitNorm ==
    /\ NormInit /\ ValidIdle /\ CorrIdle /\ AppIdle /\ PipeIdle /\ TokIdle
    /\ FnIdle /\ RetryIdle /\ LimitIdle /\ ThrottleIdle /\ AuthIdle
    /\ TimeIdle

NextNorm == VaryCase \/ InsertSeparator \/ DeleteSeparator \/ RenderBadge

SpecNorm == InitNorm /\ [][NextNorm]_vars

\* C6: a label and any spelling of it that differs only in letter case,
\* whitespace or hyphens normalise to the same string, and the lookup that
\* normalises both sides treats them as equal.
C6_NormalizationParity ==
    /\ normalizeSemester(semB) = normalizeSemester(semA)
    /\ badge \in {"none", "count"}

C6_Witness ==
    /\ badge = "count"
    /\ nedits = MaxEdits
    /\ semB # semA
    /\ Len(semB) # Len(semA)

----------------------------------------------------------------------------
(* App.tsx: what AppContent renders from its state *)

\* the four numbers of TimetableData.summary; semester_breakdown as its
\* Object.entries
ZeroSummary ==
    [total_items |-> 0, unique_courses |-> 0, unique_faculty |-> 0,
     semester_breakdown |-> <<>>]

\* !config?.semester_filter || config.semester_filter.length === 0
filterEmpty(cfg) ==
    \/ cfg = None
    \/ Val(cfg).semester_filter = None
    \/ Len(Val(Val(cfg).semester_filter)) = 0

\* config && (!config.semester_filter || config.semester_filter.length === 0)
noSemestersConfigured == config # None /\ filterEmpty(config)

\* the timetable card without the test of the allow-list
timetableVisible_noFilterCheck ==
    /\ mounted
    /\ config # None
    /\ ~isScraperRunning
    /\ timetableData # None
    /\ Len(Val(timetableData).items) > 0

\* the condition under which the timetable card is rendered
timetableVisible ==
    /\ mounted
    /\ config # None
    /\ ~noSemestersConfigured
    /\ ~isScraperRunning
    /\ timetableData # None
    /\ Len(Val(timetableData).items) > 0

\* the rows handed to TimetableTable
displayedItems == IF timetableVisible THEN Val(timetableData).items ELSE <<>>

\* SummaryStats: the summary it shows, None when it renders nothing
SummaryStats(data, cfg) ==
    IF data = None \/ Val(data).summary = None THEN None
    ELSE IF filterEmpty(cfg) THEN Some(ZeroSummary)
    ELSE Val(data).summary

\* the summary cards: SummaryStats, or the placeholder cards of zeros
displayedSummary ==
    IF ~mounted \/ config = None THEN None
    ELSE IF timetableData # None /\ ~isScraperRunning
    THEN SummaryStats(timetableData, config)
    ELSE Some(ZeroSummary)

\* the "Configure Semesters to View Schedule" card
configureCardVisible ==
    mounted /\ noSemestersConfigured /\ (timetableData # None \/ isScraperRunning)

----------------------------------------------------------------------------
(* Specification SpecApp: the dashboard.  A handler runs to its first await *)
(* in one step; the continuation after an await is the step taken when the *)
(* awaited call settles.  The state updates of one step are rendered       *)
(* together, and the effects run after the render.                         *)

MaxCalls == 1
MaxClicks == 6

Stamp == "2025-09-01T08:00:00"

SemesterLists == {<<>>, <<"BS(SE)-5C">>}

DataEmpty == [items |-> <<>>, summary |-> Some(ZeroSummary)]
DataTwo ==
    [items |-> << [course |-> "CS 101", semester |-> "BS(SE)-5C"],
                  [course |-> "SE 305", semester |-> "BS(SE)-5C"] >>,
     summary |-> Some([total_items |-> 2, unique_courses |-> 2, unique_faculty |-> 1,
                       semester_breakdown |-> << <<"BS(SE)-5C", 2>> >>])]
DataInputs == {DataEmpty, DataTwo}

\* the state a callback closed over when it was created
Closures == [isScraperRunning : BOOLEAN, operationInProgress : BOOLEAN]

\* an awaited call: the function that awaits, the API call, the function's
\* argument
Call(fn, at, arg) == [fn |-> fn, at |-> at, arg |-> arg]
Scrapers == {"runScraper", "runScraperWithSemesters"}
CallSet ==
    {Call("loadLatestTimetable", "getLatestTimetable", <<>>),
     Call("loadConfig", "getConfig", <<>>),
     Call("checkStatus", "getStatus", <<>>)}
    \cup {Call(f, a, <<>>) : f \in Scrapers, a \in {"runScraper", "checkStatus"}}
    \cup {Call("handleSaveSemesters", a, [newSemesters |-> s, closure |-> cl]) :
            a \in {"updateSemesters", "loadConfig"}, s \in SemesterLists,
            cl \in Closures}

\* an ApiResponse, or the call throwing
Response(kind, data, text, cached) ==
    [kind |-> kind, data |-> data, text |-> text, cached |-> cached]
Thrown == Response("throw", None, None, FALSE)
Failed(text) == Response("fail", None, text, FALSE)
TimetableResponses ==
    {Response("ok", Some(d), None, c) : d \in DataInputs, c \in BOOLEAN}
    \cup {Response("ok", None, None, FALSE), Failed(None), Thrown}
ScrapeResponses ==
    {Response("ok", Some(d), m, FALSE) :
        d \in DataInputs, m \in {None, Some("Scraped 2 items")}}
    \cup {Response("ok", None, None, FALSE), Failed(None),
          Failed(Some("No emails found")), Thrown}
ConfigResponses ==
    {Response("ok", Some([semester_filter |-> serverFilter]), None, FALSE),
     Failed(None), Thrown}
StatusResponses ==
    {Response("ok", Some([last_update |-> Stamp]), None, FALSE), Failed(None), Thrown}
UpdateResponses ==
    {Response("ok", None, None, FALSE), Failed(None),
     Failed(Some("Invalid semesters")), Thrown}

\* response.success && response.data
hasData(r) == r.kind = "ok" /\ r.data # None

\* x || d for an optional string
orText(o, d) == IF o = None \/ Val(o) = "" THEN d ELSE Val(o)

\* the useState cells
AppState ==
    [timetableData |-> timetableData, config |-> config, isLoading |-> isLoading,
     isScraperRunning |-> isScraperRunning,
     isSemesterUpdateRunning |-> isSemesterUpdateRunning,
     status |-> status, message |-> message, lastUpdate |-> lastUpdate,
     showSemesterManager |-> showSemesterManager,
     operationInProgress |-> operationInProgress]

\* the dependency list of the warning effect
warnDeps(a) ==
    <<a.config, a.timetableData, a.config # None /\ filterEmpty(a.config),
      a.isScraperRunning, a.operationInProgress>>

\* useEffect: the "No semesters configured" warning
warnEffect(old, new) ==
    IF /\ warnDeps(new) # warnDeps(old)
       /\ new.config # None /\ new.timetableData # None
       /\ filterEmpty(new.config)
       /\ ~new.isScraperRunning /\ ~new.operationInProgress
    THEN [new EXCEPT !.status = "warning",
                     !.message = "No semesters configured. Please add semesters to filter and organize your schedule."]
    ELSE new

setState(a) ==
    /\ timetableData' = a.timetableData
    /\ config' = a.config
    /\ isLoading' = a.isLoading
    /\ isScraperRunning' = a.isScraperRunning
    /\ isSemesterUpdateRunning' = a.isSemesterUpdateRunning
    /\ status' = a.status
    /\ message' = a.message
    /\ lastUpdate' = a.lastUpdate
    /\ showSemesterManager' = a.showSemesterManager
    /\ operationInProgress' = a.operationInProgress

\* the state updates a are rendered and the effects run
render(a) == setState(warnEffect(AppState, a))

awaiting(c) == calls[c] > 0
await(cs, c) == [cs EXCEPT ![c] = @ + 1]
settle(cs, c) == [cs EXCEPT ![c] = @ - 1]

AppInit ==
    /\ timetableData = None /\ config = None /\ lastUpdate = Null
    /\ isLoading = FALSE /\ isScraperRunning = FALSE
    /\ isSemesterUpdateRunning = FALSE /\ operationInProgress = FALSE
    /\ status = "idle" /\ message = "" /\ showSemesterManager = FALSE
    /\ mounted = FALSE
    /\ clicks = 0
    /\ calls = [c \in CallSet |-> 0]
    /\ timers = [cl \in Closures |-> 0]
    /\ serverFilter \in {None} \cup {Some(s) : s \in SemesterLists}

\* the mount effect: loadLatestTimetable(); loadConfig(); checkStatus()
Mount ==
    /\ ~mounted
    /\ mounted' = TRUE
    /\ render([AppState EXCEPT !.isLoading = TRUE, !.operationInProgress = TRUE])
    /\ calls' = await(await(await(calls,
                    Call("loadLatestTimetable", "getLatestTimetable", <<>>)),
                    Call("loadConfig", "getConfig", <<>>)),
                    Call("checkStatus", "getStatus", <<>>))
    /\ UNCHANGED <<clicks, timers, serverFilter, others_app>>

\* loadLatestTimetable after its await
LoadLatestTimetableDone ==
    LET c == Call("loadLatestTimetable", "getLatestTimetable", <<>>)
    IN  /\ awaiting(c)
        /\ \E r \in TimetableResponses :
              render([AppState EXCEPT
                  !.timetableData = IF hasData(r) THEN r.data ELSE None,
                  !.status = IF hasData(r) THEN "success"
                             ELSE IF r.kind = "throw" THEN "error" ELSE "warning",
                  !.message =
                      IF hasData(r)
                      THEN (IF r.cached THEN "Loaded cached data"
                            ELSE "Data loaded successfully")
                      ELSE IF r.kind = "throw" THEN "Failed to load timetable data"
                      ELSE "No timetable data available. Try running a manual scrape.",
                  !.isLoading = FALSE,
                  !.operationInProgress = FALSE])
        /\ calls' = settle(calls, c)
        /\ UNCHANGED <<mounted, clicks, timers, serverFilter, others_app>>

\* loadConfig after its await, when the mount effect called it
LoadConfigDone ==
    LET c == Call("loadConfig", "getConfig", <<>>)
    IN  /\ awaiting(c)
        /\ \E r \in ConfigResponses :
              render([AppState EXCEPT
                  !.config = IF hasData(r) THEN r.data ELSE @])
        /\ calls' = settle(calls, c)
        /\ UNCHANGED <<mounted, clicks, timers, serverFilter, others_app>>

\* checkStatus after its await, when the mount effect called it
CheckStatusDone ==
    LET c == Call("checkStatus", "getStatus", <<>>)
    IN  /\ awaiting(c)
        /\ \E r \in StatusResponses :
              render([AppState EXCEPT
                  !.lastUpdate = IF hasData(r) THEN Val(r.data).last_update ELSE @])
        /\ calls' = settle(calls, c)
        /\ UNCHANGED <<mounted, clicks, timers, serverFilter, others_app>>

\* runScraper and runScraperWithSemesters from their try to their await
startScrape(fn) ==
    /\ calls[Call(fn, "runScraper", <<>>)] < MaxCalls
    /\ render([AppState EXCEPT
          !.isScraperRunning = TRUE,
          !.isLoading = TRUE,
          !.operationInProgress = TRUE,
          !.status = "loading",
          !.message = "Running scraper..."])
    /\ calls' = await(calls, Call(fn, "runScraper", <<>>))

\* the Run Scraper button without the test of the configured semesters
RunScraper_noSemesterCheck ==
    /\ clicks < MaxClicks
    /\ clicks' = clicks + 1
    /\ mounted
    /\ IF isScraperRunning \/ operationInProgress
       THEN UNCHANGED <<timetableData, config, isLoading, isScraperRunning,
                       isSemesterUpdateRunning, status, message, lastUpdate,
                       showSemesterManager, operationInProgress, mounted,
                       calls, timers, serverFilter>>
       ELSE /\ startScrape("runScraper")
            /\ UNCHANGED <<mounted, timers, serverFilter>>
    /\ UNCHANGED others_app

\* the Run Scraper button
RunScraper ==
    /\ clicks < MaxClicks
    /\ clicks' = clicks + 1
    /\ mounted
    /\ IF isScraperRunning \/ operationInProgress
       THEN UNCHANGED <<timetableData, config, isLoading, isScraperRunning,
                       isSemesterUpdateRunning, status, message, lastUpdate,
                       showSemesterManager, operationInProgress, mounted,
                       calls, timers, serverFilter>>
       ELSE IF filterEmpty(config)
       THEN /\ render([AppState EXCEPT
                  !.status = "error",
                  !.message = "No semesters configured. Please add semesters before running the scraper."])
            /\ UNCHANGED <<calls, mounted, timers, serverFilter>>
       ELSE /\ startScrape("runScraper")
            /\ UNCHANGED <<mounted, timers, serverFilter>>
    /\ UNCHANGED others_app

\* the scrape without its finally block: a rejected request leaves the
\* flags as they are
ScrapeResponse_noFinally ==
    \E fn \in Scrapers, r \in ScrapeResponses :
        LET c == Call(fn, "runScraper", <<>>)
            next == Call(fn, "checkStatus", <<>>)
        IN  /\ awaiting(c)
            /\ IF hasData(r)
               THEN \* await checkStatus(): the finally block waits for it
                    /\ calls[next] < MaxCalls
                    /\ render([AppState EXCEPT
                          !.timetableData = r.data,
                          !.status = "success",
                          !.message = orText(r.text, "Scrape completed successfully")])
                    /\ calls' = await(settle(calls, c), next)
               ELSE /\ render([AppState EXCEPT
                          !.status = "error",
                          !.message = IF r.kind = "throw" THEN "Failed to run scraper"
                                      ELSE orText(r.text, "Scrape failed"),
                          !.timetableData = None,
                          !.isScraperRunning = IF r.kind = "throw" THEN @ ELSE FALSE,
                          !.isLoading = IF r.kind = "throw" THEN @ ELSE FALSE,
                          !.operationInProgress = IF r.kind = "throw" THEN @ ELSE FALSE])
                    /\ calls' = settle(calls, c)
            /\ UNCHANGED <<mounted, clicks, timers, serverFilter, others_app>>

\* the scrape without setTimetableData(null) in its failure branches
ScrapeResponse_keepsData ==
    \E fn \in Scrapers, r \in ScrapeResponses :
        LET c == Call(fn, "runScraper", <<>>)
            next == Call(fn, "checkStatus", <<>>)
        IN  /\ awaiting(c)
            /\ IF hasData(r)
               THEN \* await checkStatus(): the finally block waits for it
                    /\ calls[next] < MaxCalls
                    /\ render([AppState EXCEPT
                          !.timetableData = r.data,
                          !.status = "success",
                          !.message = orText(r.text, "Scrape completed successfully")])
                    /\ calls' = await(settle(calls, c), next)
               ELSE /\ render([AppState EXCEPT
                          !.status = "error",
                          !.message = IF r.kind = "throw" THEN "Failed to run scraper"
                                      ELSE orText(r.text, "Scrape failed"),
                          !.isScraperRunning = FALSE,
                          !.isLoading = FALSE,
                          !.operationInProgress = FALSE])
                    /\ calls' = settle(calls, c)
            /\ UNCHANGED <<mounted, clicks, timers, serverFilter, others_app>>

\* runScraper or runScraperWithSemesters after apiService.runScraper settles
ScrapeResponse ==
    \E fn \in Scrapers, r \in ScrapeResponses :
        LET c == Call(fn, "runScraper", <<>>)
            next == Call(fn, "checkStatus", <<>>)
        IN  /\ awaiting(c)
            /\ IF hasData(r)
               THEN \* await checkStatus(): the finally block waits for it
                    /\ calls[next] < MaxCalls
                    /\ render([AppState EXCEPT
                          !.timetableData = r.data,
                          !.status = "success",
                          !.message = orText(r.text, "Scrape completed successfully")])
                    /\ calls' = await(settle(calls, c), next)
               ELSE /\ render([AppState EXCEPT
                          !.status = "error",
                          !.message = IF r.kind = "throw" THEN "Failed to run scraper"
                                      ELSE orText(r.text, "Scrape failed"),
                          !.timetableData = None,
                          !.isScraperRunning = FALSE,
                          !.isLoading = FALSE,
                          !.operationInProgress = FALSE])
                    /\ calls' = settle(calls, c)
            /\ UNCHANGED <<mounted, clicks, timers, serverFilter, others_app>>

\* the scrape's checkStatus settles and the finally block runs
ScrapeStatusDone ==
    \E fn \in Scrapers, r \in StatusResponses :
        LET c == Call(fn, "checkStatus", <<>>)
        IN  /\ awaiting(c)
            /\ render([AppState EXCEPT
                  !.lastUpdate = IF hasData(r) THEN Val(r.data).last_update ELSE @,
                  !.isScraperRunning = FALSE,
                  !.isLoading = FALSE,
                  !.operationInProgress = FALSE])
            /\ calls' = settle(calls, c)
            /\ UNCHANGED <<mounted, clicks, timers, serverFilter, others_app>>

\* the Semesters button and the Add Semesters button
OpenSemesterManager ==
    /\ clicks < MaxClicks
    /\ clicks' = clicks + 1
    /\ mounted /\ ~showSemesterManager
    /\ render([AppState EXCEPT !.showSemesterManager = TRUE])
    /\ UNCHANGED <<mounted, calls, timers, serverFilter, others_app>>

\* the modal's Cancel and close buttons
CloseSemesterManager ==
    /\ clicks < MaxClicks
    /\ clicks' = clicks + 1
    /\ showSemesterManager
    /\ render([AppState EXCEPT !.showSemesterManager = FALSE])
    /\ UNCHANGED <<mounted, calls, timers, serverFilter, others_app>>

\* the modal's Save button: onSave(semesters); onClose().  handleSaveSemesters
\* runs to its await of updateSemesters.
SaveSemesters ==
    /\ clicks < MaxClicks
    /\ clicks' = clicks + 1
    /\ showSemesterManager
    /\ \E newSemesters \in SemesterLists :
          LET cl == [isScraperRunning |-> isScraperRunning,
                     operationInProgress |-> operationInProgress]
              c == Call("handleSaveSemesters", "updateSemesters",
                        [newSemesters |-> newSemesters, closure |-> cl])
          IN  IF isSemesterUpdateRunning \/ operationInProgress
              THEN /\ render([AppState EXCEPT !.showSemesterManager = FALSE])
                   /\ UNCHANGED calls
              ELSE /\ calls[c] < MaxCalls
                   /\ render([AppState EXCEPT
                         !.isSemesterUpdateRunning = TRUE,
                         !.isLoading = TRUE,
                         !.operationInProgress = TRUE,
                         !.status = "loading",
                         !.message = "Updating semester settings...",
                         !.showSemesterManager = FALSE])
                   /\ calls' = await(calls, c)
    /\ UNCHANGED <<mounted, timers, serverFilter, others_app>>

\* handleSaveSemesters after apiService.updateSemesters settles
UpdateSemestersResponse ==
    \E c \in CallSet, r \in UpdateResponses :
        /\ c.fn = "handleSaveSemesters" /\ c.at = "updateSemesters"
        /\ awaiting(c)
        /\ IF r.kind = "ok"
           THEN \* await loadConfig()
                LET next == Call("handleSaveSemesters", "loadConfig", c.arg)
                IN  /\ calls[next] < MaxCalls
                    /\ serverFilter' = Some(c.arg.newSemesters)
                    /\ calls' = await(settle(calls, c), next)
                    /\ render(AppState)
           ELSE /\ render([AppState EXCEPT
                      !.status = "error",
                      !.message = IF r.kind = "throw" THEN "Failed to update semesters"
                                  ELSE orText(r.text, "Failed to update semesters"),
                      !.isSemesterUpdateRunning = FALSE,
                      !.isLoading = FALSE,
                      !.operationInProgress = FALSE])
                /\ calls' = settle(calls, c)
                /\ UNCHANGED serverFilter
        /\ UNCHANGED <<mounted, clicks, timers, others_app>>

\* handleSaveSemesters after its loadConfig() settles, to the end of its
\* finally block
SaveLoadConfigDone ==
    \E c \in CallSet, r \in ConfigResponses :
        /\ c.fn = "handleSaveSemesters" /\ c.at = "loadConfig"
        /\ awaiting(c)
        /\ LET n == Len(c.arg.newSemesters)
           IN  /\ render([AppState EXCEPT
                     !.config = IF hasData(r) THEN r.data ELSE @,
                     !.timetableData = None,
                     !.status = "success",
                     !.message =
                         "Successfully updated " \o ToString(n) \o " allowed semesters. "
                         \o (IF n > 0 THEN "Running scraper..."
                             ELSE "Run scraper to apply new filters."),
                     !.isSemesterUpdateRunning = FALSE,
                     !.isLoading = FALSE,
                     !.operationInProgress = FALSE])
               /\ IF n > 0
                  THEN \* setTimeout(() => runScraperWithSemesters(newSemesters), 1000)
                       /\ timers[c.arg.closure] < MaxCalls
                       /\ timers' = [timers EXCEPT ![c.arg.closure] = @ + 1]
                  ELSE UNCHANGED timers
        /\ calls' = settle(calls, c)
        /\ UNCHANGED <<mounted, clicks, serverFilter, others_app>>

\* the timer fires: runScraperWithSemesters as the render that scheduled it
\* defined it, with that render's isScraperRunning and operationInProgress
AutoRunTimer ==
    \E cl \in Closures :
        /\ timers[cl] > 0
        /\ timers' = [timers EXCEPT ![cl] = @ - 1]
        /\ IF cl.isScraperRunning \/ cl.operationInProgress
           THEN UNCHANGED <<timetableData, config, isLoading, isScraperRunning,
                            isSemesterUpdateRunning, status, message, lastUpdate,
                            showSemesterManager, operationInProgress, calls>>
           ELSE startScrape("runScraperWithSemesters")
        /\ UNCHANGED <<mounted, clicks, serverFilter, others_app>>

InitApp ==
    /\ AppInit /\ ValidIdle /\ CorrIdle /\ NormIdle /\ PipeIdle /\ TokIdle
    /\ FnIdle /\ RetryIdle /\ LimitIdle /\ ThrottleIdle /\ AuthIdle
    /\ TimeIdle

NextApp ==
    \/ Mount
    \/ LoadLatestTimetableDone
    \/ LoadConfigDone
    \/ CheckStatusDone
    \/ RunScraper
    \/ ScrapeResponse
    \/ ScrapeStatusDone
    \/ OpenSemesterManager
    \/ CloseSemesterManager
    \/ SaveSemesters
    \/ UpdateSemestersResponse
    \/ SaveLoadConfigDone
    \/ AutoRunTimer

SpecApp == InitApp /\ [][NextApp]_vars

\* C7: while the configured allow-list is empty or missing, no timetable row
\* is displayed and the summary shows zero classes, zero courses, zero
\* faculty and an empty semester breakdown, whatever the loaded data holds.
C7_EmptyAllowListShowsNothing ==
    /\ filterEmpty(config) => displayedItems = <<>>
    /\ noSemestersConfigured => displayedSummary = Some(ZeroSummary)

C7_Witness ==
    /\ noSemestersConfigured
    /\ ~isScraperRunning
    /\ timetableData = Some(DataTwo)
    /\ displayedItems = <<>>
    /\ displayedSummary = Some(ZeroSummary)

----------------------------------------------------------------------------
(* TimetableTable.tsx: the sort key and the order of the table *)

RECURSIVE parseInt(_)
\* parseInt of a string of decimal digits
parseInt(s) ==
    IF s = "" THEN 0
    ELSE 10 * parseInt(SubSeq(s, 1, Len(s) - 1)) + (IndexOf(DIGITS, CharAt(s, Len(s))) - 1)

AreDigits(s, i, j) == j <= Len(s) /\ \A k \in i..j : IsDigit(CharAt(s, k))

\* /(\d{1,2}):(\d{2})\s*(AM|PM)/i at position i: <<hours, minutes, period>>,
\* <<>> when it does not match there.  \d{1,2} takes two digits when a colon
\* follows them and one digit otherwise.
timeMatchAt(s, i) ==
    LET colon == IF AreDigits(s, i, i + 1) /\ StartsAt(s, i + 2, ":") THEN i + 2
                 ELSE IF AreDigits(s, i, i) /\ StartsAt(s, i + 1, ":") THEN i + 1
                 ELSE 0
        ampm == RunEnd(s, colon + 3, "space")
    IN  IF colon > 0 /\ AreDigits(s, colon + 1, colon + 2)
           /\ ampm + 1 <= Len(s)
           /\ toUpperCase(SubSeq(s, ampm, ampm + 1)) \in {"AM", "PM"}
        THEN << SubSeq(s, i, colon - 1), SubSeq(s, colon + 1, colon + 2),
                SubSeq(s, ampm, ampm + 1) >>
        ELSE <<>>

\* timeStr.match(...): the leftmost match, <<>> when there is none
timeMatch(s) ==
    LET starts == {i \in 1..Len(s) : timeMatchAt(s, i) # <<>>}
    IN  IF starts = {} THEN <<>>
        ELSE timeMatchAt(s, CHOOSE m \in starts : \A n \in starts : m <= n)

\* the start time without the conversion of 12 AM to hour 0
parseTimeToMinutes_noMidnight(timeStr) ==
    IF Falsy(timeStr) \/ timeStr = "-" \/ timeStr = "null" THEN 0
    ELSE Let(timeMatch(timeStr), LAMBDA m :
        IF m = <<>> THEN 0
        ELSE LET parsed == parseInt(m[1])
                 minutes == parseInt(m[2])
                 period == toUpperCase(m[3])
                 hours == IF period = "PM" /\ parsed # 12 THEN parsed + 12
                          ELSE parsed
             IN  hours * 60 + minutes)

\* the start time in minutes since midnight, 0 when there is none
parseTimeToMinutes(timeStr) ==
    IF Falsy(timeStr) \/ timeStr = "-" \/ timeStr = "null" THEN 0
    ELSE Let(timeMatch(timeStr), LAMBDA m :
        IF m = <<>> THEN 0
        ELSE LET parsed == parseInt(m[1])
                 minutes == parseInt(m[2])
                 period == toUpperCase(m[3])
                 hours == IF period = "PM" /\ parsed # 12 THEN parsed + 12
                          ELSE IF period = "AM" /\ parsed = 12 THEN 0
                          ELSE parsed
             IN  hours * 60 + minutes)

\* the characters of the model in the order of their UTF-16 code units
CODE_UNITS ==
    " !#$%&'()*+,-./0123456789:;<=>?@ABCDEFGHIJKLMNOPQRSTUVWXYZ[]^_abcdefghijklmnopqrstuvwxyz{|}~"

\* the characters of the model in the order of the root collation, letters
\* without their case
COLLATION == " _-,;:!?.'()[]{}@*/&#%^+<=>|~$0123456789abcdefghijklmnopqrstuvwxyz"

codeUnit(c) == IndexOf(CODE_UNITS, c)
primaryWeight(c) == IndexOf(COLLATION, LowerCh(c))
caseWeight(c) == IF IsUpper(c) THEN 1 ELSE 0

rankOf(level, c) ==
    CASE level = "code unit" -> codeUnit(c)
      [] level = "primary"   -> primaryWeight(c)
      [] level = "case"      -> caseWeight(c)

RECURSIVE compareBy(_, _, _)
\* -1, 0 or 1: a against b, character by character, by the rank of the level
compareBy(a, b, level) ==
    IF a = "" THEN (IF b = "" THEN 0 ELSE -1)
    ELSE IF b = "" THEN 1
    ELSE Let(rankOf(level, Head(a)) - rankOf(level, Head(b)), LAMBDA d :
             IF d < 0 THEN -1 ELSE IF d > 0 THEN 1
             ELSE compareBy(Tail(a), Tail(b), level))

\* the default comparison of Array.prototype.sort on strings
compareCodeUnits(a, b) == compareBy(a, b, "code unit")

\* a.localeCompare(b): letters and digits first, letter case breaks ties,
\* lower case first
localeCompare(a, b) ==
    Let(compareBy(a, b, "primary"), LAMBDA d :
        IF d # 0 THEN d ELSE compareBy(a, b, "case"))

\* the sequence s ordered by cmp; equal elements keep their order
stableSort(s, cmp(_, _)) ==
    LET before(i) == {j \in 1..Len(s) :
                        Let(cmp(s[j], s[i]), LAMBDA d : d < 0 \/ (d = 0 /\ j < i))}
    IN  [k \in 1..Len(s) |-> s[CHOOSE i \in 1..Len(s) : Cardinality(before(i)) = k - 1]]

\* the comparator groupAndSortData sorts a semester's rows with
compareItems(a, b) ==
    Let(parseTimeToMinutes(getDisplayTime(a)), LAMBDA timeA :
    Let(parseTimeToMinutes(getDisplayTime(b)), LAMBDA timeB :
        IF timeA = timeB
        THEN localeCompare(OrElse(a.course, ""), OrElse(b.course, ""))
        ELSE timeA - timeB))

\* item.semester || 'Unknown'
semesterOf(it) == OrElse(it.semester, "Unknown")

\* Object.keys(grouped).sort(): the distinct labels in code-unit order
sortedSemesters(items) ==
    LET labels == {semesterOf(items[i]) : i \in 1..Len(items)}
        smaller(l) == {m \in labels : compareCodeUnits(m, l) < 0}
    IN  [k \in 1..Cardinality(labels) |->
            CHOOSE l \in labels : Cardinality(smaller(l)) = k - 1]

\* grouped[semester] once sorted
groupOf(items, semester) ==
    stableSort(SelectSeq(items, LAMBDA it : semesterOf(it) = semester), compareItems)

RECURSIVE flatten(_, _, _)
\* sortedSemesters.map(semester => grouped[semester].map(...)), row after row
flatten(items, semesters, k) ==
    IF k > Len(semesters) THEN <<>>
    ELSE groupOf(items, semesters[k]) \o flatten(items, semesters, k + 1)

\* the items in the order TimetableTable draws them
groupAndSortData(items) == flatten(items, sortedSemesters(items), 1)

\* the cells of the rows TimetableTable draws
tableRows(items) ==
    Let(groupAndSortData(items), LAMBDA sorted :
        [k \in 1..Len(sorted) |-> correct(sorted[k])])

----------------------------------------------------------------------------
(* The record pipeline behind the snapshot: SemesterMatcher, the           *)
(* correction step and RecordAssembler                                     *)

RECURSIVE matchesFrom(_, _, _)
matchesFrom(record, allow, k) ==
    IF k > Len(allow) THEN FALSE
    ELSE IF normalizeSemester(allow[k]) = normalizeSemester(record.semester) THEN TRUE
    ELSE matchesFrom(record, allow, k + 1)

\* the match on the labels as they are written
matches_rawCompare(record, allow) ==
    \E k \in 1..Len(allow) : allow[k] = record.semester

\* SemesterMatcher: matches(record, allowList)
matches(record, allow) ==
    IsString(record.semester) /\ matchesFrom(record, allow, 1)

\* the dedup key with the faculty name in it
dedupKey_withFaculty(r) == <<r.course, r.time, r.room, r.semester, r.faculty>>

\* RecordAssembler: the dedup key
dedupKey(r) == <<r.course, r.time, r.room, r.semester>>

RECURSIVE dedupe(_, _, _)
\* the records whose key no earlier record has
dedupe(rs, k, seen) ==
    IF k > Len(rs) THEN <<>>
    ELSE Let(dedupKey(rs[k]), LAMBDA key :
             IF key \in seen THEN dedupe(rs, k + 1, seen)
             ELSE <<rs[k]>> \o dedupe(rs, k + 1, seen \cup {key}))

\* RecordAssembler: the summary of the final item list
summarize(items) ==
    LET present(f) == {items[i][f] : i \in 1..Len(items)} \ {Undef}
        labels == sortedSemesters(items)
        count(l) == Cardinality({i \in 1..Len(items) : semesterOf(items[i]) = l})
    IN  [total_items |-> Len(items),
         unique_courses |-> Cardinality(present("course")),
         unique_faculty |-> Cardinality(present("faculty")),
         semester_breakdown |-> [k \in 1..Len(labels) |-> <<labels[k], count(labels[k])>>]]

----------------------------------------------------------------------------
(* Specification SpecPipe: the extracted rows of one message go through    *)
(* the semester filter, the correction step and the assembler, and the     *)
(* table is drawn from the snapshot                                        *)

MaxRows == 3

Row(course, time, room, faculty, semester) ==
    [NoItem EXCEPT !.course = course, !.time = time, !.room = room,
                   !.faculty = faculty, !.semester = semester]

RowInputs ==
    {Row("CS 101", "08:00 AM - 11:00 AM", "301", "Sarwat Nadeem", "BS(SE)-5C"),
     Row("CS 101", "08:00 AM - 11:00 AM", "301", "SARWAT NADEEM", "BS(SE)-5C"),
     Row("SE 305", "-", "Lab 02", "Ali Raza", "BS(SE)-5C"),
     Row("CS 205", "12:00 AM - 02:00 PM", "NB-01", "Ali Raza", "BS(SE)-5C"),
     Row("MA 110", "02:00 PM - 03:30 PM", Undef, Undef, "bs(se) - 5c"),
     Row("EE 210", "9:30 AM - 11:00 AM", "TBD", "Sana Khan", "BS(CS)-7A"),
     Row("EE 215", Undef, "-", "Sana Khan", Undef)}

AllowLists == {<<>>, <<"BS(SE)-5C">>, <<"bs se 5c", "BS(CS)-7A">>}

RECURSIVE SeqsUpTo(_, _)
\* the sequences of at most n elements of S
SeqsUpTo(S, n) ==
    IF n = 0 THEN {<<>>}
    ELSE SeqsUpTo(S, n - 1)
         \cup {Append(s, x) : s \in {q \in SeqsUpTo(S, n - 1) : Len(q) = n - 1}, x \in S}

PipeInit ==
    /\ allowList \in AllowLists
    /\ rows \in SeqsUpTo(RowInputs, MaxRows)
    /\ kept = <<>> /\ records = <<>> /\ snapshot = None /\ table = <<>>
    /\ ppc = "extracted"

\* SemesterMatcher drops the rows of the semesters that are not listed
Filter ==
    /\ ppc = "extracted"
    /\ kept' = SelectSeq(rows, LAMBDA r : matches(r, allowList))
    /\ ppc' = "filtered"
    /\ UNCHANGED <<allowList, rows, records, snapshot, table, others_pipe>>

\* the correction step repairs each record that passed the filter
CorrectKept ==
    /\ ppc = "filtered"
    /\ records' = [k \in 1..Len(kept) |-> correct(kept[k])]
    /\ ppc' = "corrected"
    /\ UNCHANGED <<allowList, rows, kept, snapshot, table, others_pipe>>

\* the summary taken of the records as they arrive, before the duplicates
\* are dropped
Assemble_summaryOfRecords ==
    /\ ppc = "corrected"
    /\ LET items == dedupe(records, 1, {})
       IN  snapshot' = Some([items |-> items, summary |-> Some(summarize(records))])
    /\ ppc' = "assembled"
    /\ UNCHANGED <<allowList, rows, kept, records, table, others_pipe>>

\* RecordAssembler: one entry per dedup key, and the summary of the entries
Assemble ==
    /\ ppc = "corrected"
    /\ LET items == dedupe(records, 1, {})
       IN  snapshot' = Some([items |-> items, summary |-> Some(summarize(items))])
    /\ ppc' = "assembled"
    /\ UNCHANGED <<allowList, rows, kept, records, table, others_pipe>>

\* the table drawn from the rows as extracted
Render_unfiltered ==
    /\ ppc = "assembled"
    /\ table' = tableRows(rows)
    /\ ppc' = "rendered"
    /\ UNCHANGED <<allowList, rows, kept, records, snapshot, others_pipe>>

\* TimetableTable draws the snapshot's items
Render ==
    /\ ppc = "assembled"
    /\ table' = tableRows(Val(snapshot).items)
    /\ ppc' = "rendered"
    /\ UNCHANGED <<allowList, rows, kept, records, snapshot, others_pipe>>

InitPipe ==
    /\ PipeInit /\ ValidIdle /\ CorrIdle /\ NormIdle /\ AppIdle /\ TokIdle
    /\ FnIdle /\ RetryIdle /\ LimitIdle /\ ThrottleIdle /\ AuthIdle
    /\ TimeIdle

NextPipe == Filter \/ CorrectKept \/ Assemble \/ Render

SpecPipe == InitPipe /\ [][NextPipe]_vars

\* the letters of a label: its characters in lower case, without the
\* whitespace and the hyphens
Letters(s) ==
    SelectSeq([i \in 1..Len(s) |-> LowerCh(CharAt(s, i))],
              LAMBDA c : c \notin {" ", "\t", "\n", "-"})

\* the indices of the rows whose semester is listed
Listed ==
    {i \in 1..Len(rows) :
        /\ IsString(rows[i].semester)
        /\ \E k \in 1..Len(allowList) : Letters(allowList[k]) = Letters(rows[i].semester)}

\* C8: the filter keeps a row iff the normal form of its semester equals the
\* normal form of an entry of the allow-list: the rows kept are exactly the
\* listed rows, in their order, and their number is the number of listed
\* rows.
C8_FilterExact ==
    ppc # "extracted" =>
        /\ Len(kept) = Cardinality(Listed)
        /\ \A j \in 1..Len(kept) :
              \E i \in Listed :
                  /\ Cardinality({m \in Listed : m < i}) = j - 1
                  /\ kept[j] = rows[i]

C8_Witness ==
    /\ ppc = "filtered"
    /\ allowList # <<>>
    /\ Len(rows) = MaxRows
    /\ Len(kept) = 2
    /\ \E j \in 1..Len(kept) :
          \A k \in 1..Len(allowList) : kept[j].semester # allowList[k]

parseable(timeStr) ==
    /\ ~Falsy(timeStr) /\ timeStr \notin {"-", "null"}
    /\ timeMatch(timeStr) # <<>>

\* C10: the rows of the table are in order of semester label, then of start
\* time in minutes, then of course code; a row whose time cannot be parsed
\* counts as zero and comes before every row of its semester whose time can
\* be parsed.
C10_SortOrder ==
    ppc = "rendered" =>
        \A i, j \in 1..Len(table) :
            (i < j) =>
                LET a == table[i]
                    b == table[j]
                    bySemester == compareCodeUnits(semesterOf(a), semesterOf(b))
                    byTime == parseTimeToMinutes(a.time) - parseTimeToMinutes(b.time)
                IN  /\ bySemester <= 0
                    /\ bySemester = 0 =>
                          /\ byTime <= 0
                          /\ byTime = 0 => compareCodeUnits(a.course, b.course) <= 0
                          /\ ~parseable(a.time) => parseTimeToMinutes(a.time) = 0
                          /\ ~(parseable(a.time) /\ ~parseable(b.time))

----------------------------------------------------------------------------
(* RowTokenizer and FieldExtractor: from the body of one message to the    *)
(* extracted rows                                                          *)

\* the least element of a set of numbers
Min(S) == CHOOSE m \in S : \A n \in S : m <= n

\* position after the course code at the start of a line (two to six
\* letters, then three or four digits), 0 when the line does not start
\* with one
courseCodeEnd_anyDigits(line) ==
    Let(RunEnd(line, 1, "alpha"), LAMBDA letters :
    Let(RunEnd(line, letters, "space"), LAMBDA number :
    Let(RunEnd(line, number, "digit"), LAMBDA digits :
        IF letters > 1 /\ digits > number THEN digits ELSE 0)))

courseCodeEnd(line) ==
    Let(RunEnd(line, 1, "alpha"), LAMBDA letters :
    Let(RunEnd(line, letters, "space"), LAMBDA number :
    Let(RunEnd(line, number, "digit"), LAMBDA digits :
        IF (letters - 1) \in 2..6 /\ (digits - number) \in 3..4 THEN digits ELSE 0)))

\* a line starts a new row iff a course code is at its start
startsRow(line) == courseCodeEnd(line) > 0

\* the tags that end a table row or a block, and those that end a cell
RowBreakTags == {"/tr", "br", "br/", "/p", "/div"}
CellBreakTags == {"/td", "/th"}

\* the first position of character c in s from position i on, 0 when there
\* is none
firstIndex(s, c, i) ==
    LET at == {k \in i..Len(s) : CharAt(s, k) = c}
    IN  IF at = {} THEN 0 ELSE Min(at)

\* what a tag leaves in the text
tagText(tag) ==
    IF tag \in RowBreakTags THEN "\n" ELSE IF tag \in CellBreakTags THEN " " ELSE ""

RECURSIVE stripMarkup(_)
\* the text of an HTML body: row boundaries become line breaks, cell
\* boundaries become the in-line delimiter, every other tag goes
stripMarkup(s) ==
    Let(<<firstIndex(s, "<", 1), firstIndex(s, ">", firstIndex(s, "<", 1) + 1)>>, LAMBDA tag :
        IF tag[1] = 0 THEN s
        ELSE IF tag[2] = 0 THEN SubSeq(s, 1, tag[1] - 1)
        ELSE SubSeq(s, 1, tag[1] - 1)
               \o tagText(toLowerCase(SubSeq(s, tag[1] + 1, tag[2] - 1)))
               \o stripMarkup(SubSeq(s, tag[2] + 1, Len(s))))

RECURSIVE splitLines(_)
splitLines(s) ==
    Let({i \in 1..Len(s) : CharAt(s, i) = "\n"}, LAMBDA nl :
        IF nl = {} THEN <<s>>
        ELSE Let(Min(nl), LAMBDA i :
                 <<SubSeq(s, 1, i - 1)>> \o splitLines(SubSeq(s, i + 1, Len(s)))))

\* the lines of the body that hold text, trimmed
usableLines(text, isHtml) ==
    Let(splitLines(IF isHtml THEN stripMarkup(text) ELSE text), LAMBDA physical :
    Let([k \in 1..Len(physical) |-> trim(physical[k])], LAMBDA trimmed :
        SelectSeq(trimmed, LAMBDA l : l # "")))

\* MalformedMessageBody whenever no line is left
unreadable_noLines(text, usable) == usable = <<>>

\* MalformedMessageBody: a non-empty body without a usable line
unreadable(text, usable) == text # "" /\ usable = <<>>

\* the buffer as a completed row, when there is one
flushed(rs, buf) == IF buf = None THEN rs ELSE Append(rs, Val(buf))

\* position after the clock clause H:MM AM/PM at i, 0 when there is none
clockEnd(s, i) ==
    Let(timeMatchAt(s, i), LAMBDA m :
        IF m = <<>> THEN 0
        ELSE RunEnd(s, i + Len(m[1]) + 3, "space") + 2)

\* position after two clock clauses joined by a range separator at i
timeRangeEnd(s, i) ==
    Let(clockEnd(s, i), LAMBDA first :
        IF first = 0 THEN 0
        ELSE Let(RunEnd(s, first, "space"), LAMBDA dash :
                 IF ~StartsAt(s, dash, "-") THEN 0
                 ELSE clockEnd(s, RunEnd(s, dash + 1, "space"))))

\* position after a semester label at i: a program code in parentheses, a
\* dash, a number and a section letter
semesterEnd(s, i) ==
    IF i > 1 /\ ~IsSpace(CharAt(s, i - 1)) THEN 0
    ELSE AtomsEnd(s, i, << <<"upper+", "">>, <<"cs", "(">>, <<"upper+", "">>,
                            <<"cs", ")">>, <<"cs", "-">>, <<"digit+", "">>,
                            <<"upper+", "">> >>, 1)

\* the leftmost span <<from, to>> of a pattern in s, <<>> when there is none
spanOf(s, End(_, _)) ==
    Let({i \in 1..Len(s) : End(s, i) > 0}, LAMBDA starts :
        IF starts = {} THEN <<>>
        ELSE Let(Min(starts), LAMBDA i : <<i, End(s, i)>>))

\* the room candidates of the extractor, in their order
extractorRoomPatterns == SubSeq(extractRoomPatterns, 1, 9)

RECURSIVE roomSpan(_, _)
\* the span of the first room candidate that matches
roomSpan(s, k) ==
    IF k > Len(extractorRoomPatterns) THEN <<>>
    ELSE Let(spanOf(s, LAMBDA x, i : FirstAltEnd(x, i, extractorRoomPatterns[k], 1)),
             LAMBDA span : IF span # <<>> THEN span ELSE roomSpan(s, k + 1))

\* the text of a span, absent when there is no span
claimed(s, span) == IF span = <<>> THEN Undef ELSE SubSeq(s, span[1], span[2] - 1)

\* the pool without a claimed span
unclaimed(s, span) ==
    IF span = <<>> THEN s
    ELSE trim(SubSeq(s, 1, span[1] - 1) \o " " \o SubSeq(s, span[2], Len(s)))

\* FieldExtractor: the record of one row, its course absent when the row
\* does not start with a course code
extractFields(row) ==
    Let(courseCodeEnd(row), LAMBDA codeEnd :
        IF codeEnd = 0 THEN [NoItem EXCEPT !.full_text = row]
        ELSE
    Let(trim(SubSeq(row, codeEnd, Len(row))), LAMBDA afterCode :
    Let(spanOf(afterCode, timeRangeEnd), LAMBDA timeAt :
    Let(unclaimed(afterCode, timeAt), LAMBDA afterTime :
    Let(roomSpan(afterTime, 1), LAMBDA roomAt :
    Let(unclaimed(afterTime, roomAt), LAMBDA afterRoom :
    Let(spanOf(afterRoom, semesterEnd), LAMBDA semAt :
    Let(unclaimed(afterRoom, semAt), LAMBDA rest :
        [NoItem EXCEPT !.course = SubSeq(row, 1, codeEnd - 1),
                       !.time = claimed(afterCode, timeAt),
                       !.room = claimed(afterTime, roomAt),
                       !.semester = claimed(afterRoom, semAt),
                       !.faculty = IF rest = "" THEN Undef ELSE rest,
                       !.full_text = row]))))))))

\* a record is emitted only with a course
hasCourse(record) == IsString(record.course) /\ record.course # ""

----------------------------------------------------------------------------
(* Specification SpecTok: one message from its body to the table.  The     *)
(* tokenizer scans one line per step; the rows it completes are extracted  *)
(* and handed to the filter, the correction step and the assembler.        *)

MaxLines == 3

LineInputs ==
    {"CSCL 3105 08:00 AM - 11:00 AM Lab 05 Sarwat Nadeem BS(AI)-3A",
     "CSC 2123 Lab 05 BS(SE)-5C",
     "02:00 PM - 03:30 PM",
     "Class Schedule for Monday",
     "SE 305 Room 302 Ali Raza BS(CS)-7A"}

\* <<body, body_is_html>>
BodyInputs ==
    {<<join(ls, "\n"), FALSE>> : ls \in SeqsUpTo(LineInputs, MaxLines)}
    \cup {<<"  \n ", FALSE>>,
          <<"<html><body><p> </p></body></html>", TRUE>>,
          <<"<tr><td>CSC 2123</td><td>Ali Raza</td></tr><tr><td>Lab 05 BS(SE)-5C<br>02:00 PM - 03:30 PM</td></tr>", TRUE>>}

TokInit ==
    /\ \E b \in BodyInputs : body = b[1] /\ bodyIsHtml = b[2]
    /\ allowList \in AllowLists
    /\ lines = <<>> /\ buffer = None /\ rowTexts = <<>> /\ skipped = 0
    /\ rows = <<>> /\ kept = <<>> /\ records = <<>> /\ snapshot = None /\ table = <<>>
    /\ ppc = "received"

\* the body is split into its usable lines; a body without one is reported
\* as unreadable and the run ends
Receive ==
    /\ ppc = "received"
    /\ lines' = usableLines(body, bodyIsHtml)
    /\ ppc' = IF unreadable(body, lines') THEN "unreadable" ELSE "scanning"
    /\ UNCHANGED <<body, bodyIsHtml, buffer, rowTexts, skipped,
                   allowList, rows, kept, records, snapshot, table, others_tok>>

\* a line with a course code at its start: the buffer is flushed and the
\* line starts the next row
StartRow ==
    /\ ppc = "scanning" /\ lines # <<>>
    /\ startsRow(Head(lines))
    /\ rowTexts' = flushed(rowTexts, buffer)
    /\ buffer' = Some(Head(lines))
    /\ lines' = Tail(lines)
    /\ UNCHANGED <<body, bodyIsHtml, skipped, ppc,
                   allowList, rows, kept, records, snapshot, table, others_tok>>

\* a continuation line: its text joins the row in the buffer, or is not
\* collected
MergeContinuation ==
    /\ ppc = "scanning" /\ lines # <<>>
    /\ ~startsRow(Head(lines))
    /\ buffer # None
    /\ \E collected \in BOOLEAN :
          buffer' = IF collected THEN Some(Val(buffer) \o " " \o Head(lines))
                    ELSE buffer
    /\ lines' = Tail(lines)
    /\ UNCHANGED <<body, bodyIsHtml, rowTexts, skipped, ppc,
                   allowList, rows, kept, records, snapshot, table, others_tok>>

\* a line before the first course code: discarded and counted
SkipLine ==
    /\ ppc = "scanning" /\ lines # <<>>
    /\ ~startsRow(Head(lines))
    /\ buffer = None
    /\ skipped' = skipped + 1
    /\ lines' = Tail(lines)
    /\ UNCHANGED <<body, bodyIsHtml, buffer, rowTexts, ppc,
                   allowList, rows, kept, records, snapshot, table, others_tok>>

\* end of input: the last buffer is flushed
FlushLast ==
    /\ ppc = "scanning" /\ lines = <<>>
    /\ rowTexts' = flushed(rowTexts, buffer)
    /\ buffer' = None
    /\ ppc' = "tokenized"
    /\ UNCHANGED <<body, bodyIsHtml, lines, skipped,
                   allowList, rows, kept, records, snapshot, table, others_tok>>

\* FieldExtractor on every row; a row without a course is dropped and
\* counted
Extract ==
    /\ ppc = "tokenized"
    /\ rows' = SelectSeq([k \in 1..Len(rowTexts) |-> extractFields(rowTexts[k])],
                         hasCourse)
    /\ skipped' = skipped + Len(rowTexts) - Len(rows')
    /\ ppc' = "extracted"
    /\ UNCHANGED <<body, bodyIsHtml, lines, buffer, rowTexts,
                   allowList, kept, records, snapshot, table, others_tok>>

InitTok ==
    /\ TokInit /\ ValidIdle /\ CorrIdle /\ NormIdle /\ AppIdle /\ FnIdle
    /\ RetryIdle /\ LimitIdle /\ ThrottleIdle /\ AuthIdle
    /\ TimeIdle

NextTok ==
    \/ Receive \/ StartRow \/ MergeContinuation \/ SkipLine \/ FlushLast \/ Extract
    \/ Filter \/ CorrectKept \/ Assemble \/ Render

SpecTok == InitTok /\ [][NextTok]_vars

\* the records the pipeline holds after extraction, at every stage
emitted ==
    {rows[k] : k \in 1..Len(rows)} \cup {kept[k] : k \in 1..Len(kept)}
    \cup {records[k] : k \in 1..Len(records)} \cup {table[k] : k \in 1..Len(table)}
    \cup (IF snapshot = None THEN {}
          ELSE {Val(snapshot).items[k] : k \in 1..Len(Val(snapshot).items)})

\* a course code: two to six letters, then three or four digits
IsCourseCode(c) ==
    /\ IsString(c)
    /\ \E n \in 2..6 : \E d \in 3..4 : \E sp \in 0..(Len(c) - n - d) :
          /\ Len(c) = n + sp + d
          /\ \A k \in 1..n : IsUpper(CharAt(c, k)) \/ IsLower(CharAt(c, k))
          /\ \A k \in (n + 1)..(n + sp) : IsSpace(CharAt(c, k))
          /\ \A k \in (n + sp + 1)..Len(c) : IsDigit(CharAt(c, k))

\* the usable lines in front of the first line that starts with a course code
leading ==
    Let(usableLines(body, bodyIsHtml), LAMBDA usable :
    Let({j \in 1..Len(usable) :
            IsCourseCode(SubSeq(usable[j], 1, courseCodeEnd(usable[j]) - 1))},
        LAMBDA coded : {i \in 1..Len(usable) : \A j \in coded : i < j}))

\* C11: every record the pipeline holds, at every stage from extraction to
\* the table, has a non-empty course, which is the course code at the start
\* of its row; the lines that yield no course are dropped and counted as
\* skipped.
C11_NonEmptyCourse ==
    /\ \A r \in emitted :
          /\ IsString(r.course) /\ r.course # ""
          /\ IsCourseCode(r.course)
          /\ StartsAt(r.full_text, 1, r.course)
    /\ ppc \in {"tokenized", "extracted", "filtered", "corrected", "assembled", "rendered"}
          => skipped = Cardinality(leading)

C11_Witness ==
    /\ ppc = "rendered"
    /\ skipped = 1
    /\ Len(rows) = 2
    /\ Len(table) = 1
    /\ table[1].course = "CSC 2123"

\* the stages after the tokenizer
Tokenized == {"tokenized", "extracted", "filtered", "corrected", "assembled", "rendered"}

\* C12: the tokenizer emits one row per line that starts with a course
\* code, in input order; every other line that follows is merged into the
\* row of the nearest course-code line before it and the lines before the
\* first course code are discarded; a time range that wraps onto the next
\* line ends up in the time of that row.
C12_ContinuationMerged ==
    ppc \in Tokenized =>
        Let(usableLines(body, bodyIsHtml), LAMBDA usable :
            LET starts == {i \in 1..Len(usable) : startsRow(usable[i])}
                nth(k) == CHOOSE i \in starts : Cardinality({m \in starts : m < i}) = k - 1
                next(k) == IF k < Cardinality(starts) THEN nth(k + 1) ELSE Len(usable) + 1
            IN  /\ Len(rowTexts) = Cardinality(starts)
                /\ \A k \in 1..Len(rowTexts) :
                      /\ StartsAt(rowTexts[k], 1, usable[nth(k)])
                      /\ \A j \in (nth(k) + 1)..(next(k) - 1) :
                            includes(rowTexts[k], usable[j])
                      /\ (/\ ppc # "tokenized"
                          /\ \E j \in nth(k)..(next(k) - 1) :
                                spanOf(usable[j], timeRangeEnd) # <<>>)
                            => rows[k].time # Undef)

inTag(k, opens, closes) ==
    \E i \in opens : i <= k /\ \A m \in closes : m < i \/ m >= k

\* the body holds no character of text
noText ==
    Let({i \in 1..Len(body) : bodyIsHtml /\ CharAt(body, i) = "<"}, LAMBDA opens :
    Let({i \in 1..Len(body) : bodyIsHtml /\ CharAt(body, i) = ">"}, LAMBDA closes :
        \A k \in 1..Len(body) :
            IsSpace(CharAt(body, k)) \/ inTag(k, opens, closes)))

\* the position of a stage in the pass; the two ends are last
stageRank(p) ==
    CASE p = "received" -> 0
      [] p = "scanning" -> 1
      [] p = "tokenized" -> 2
      [] p = "extracted" -> 3
      [] p = "filtered" -> 4
      [] p = "corrected" -> 5
      [] p = "assembled" -> 6
      [] p = "rendered" -> 7
      [] p = "unreadable" -> 7

\* C14: the run ends as unreadable exactly when the body is non-empty and
\* holds no usable line; every other body, also one without a matching
\* class, goes on to a snapshot, whose item list is then empty; no step of
\* a run leads anywhere but forward: a step either consumes a line of the
\* scan or moves to a later stage, and only the unreadable end is without
\* a snapshot.
C14_UnreadableDistinct ==
    /\ [](/\ ppc # "received" => ((ppc = "unreadable") <=> (body # "" /\ noText))
          /\ ppc = "unreadable" => snapshot = None
          /\ ppc \in {"assembled", "rendered"} =>
                /\ snapshot # None
                /\ kept = <<>> => (Val(snapshot).items = <<>>
                                   /\ Val(snapshot).summary = Some(summarize(<<>>))))
    /\ [][\/ stageRank(ppc') > stageRank(ppc)
          \/ /\ ppc = "scanning" /\ ppc' = "scanning"
             /\ Len(lines') < Len(lines)]_vars

C14_Witness ==
    /\ ppc = "unreadable"
    /\ bodyIsHtml
    /\ body # ""
    /\ lines = <<>>
    /\ snapshot = None

----------------------------------------------------------------------------
(* Specification SpecFn: the exported helpers of courseCorrections.ts, each *)
(* called once on the same record                                          *)

FnCourseInputs == {"CSCL 2205", "SECL 2404", "CS 101", "MATH 1101", "AI 301", Undef}
FnRawInputs ==
    {Undef, "NB-01 Lab 05", "Room 302", "NB-101", "Seminar Hall", "Lab A",
     "Cancelled 301", "Virtual Digital Lab", "Online Computer Lab", "tbd Online"}

FnInputs ==
    [course : FnCourseInputs, course_title : {Undef}, faculty : {Undef},
     room : {Undef}, time : {Undef}, semester : {Undef}, campus : {Undef},
     class_section : {Undef}, full_text : FnRawInputs, raw_cells : {<<>>}]

FnInit ==
    /\ rec \in FnInputs
    /\ roomExtracted = None
    /\ roomFallback = None
    /\ titleGenerated = None

CallExtractRoom ==
    /\ roomExtracted = None
    /\ roomExtracted' = Some(extractRoomFromRawData(rec))
    /\ UNCHANGED <<rec, roomFallback, titleGenerated, others_fn>>

CallRoomFallback ==
    /\ roomFallback = None
    /\ roomFallback' = Some(generateRoomFallback(rec))
    /\ UNCHANGED <<rec, roomExtracted, titleGenerated, others_fn>>

CallCourseTitle ==
    /\ titleGenerated = None
    /\ titleGenerated' = Some(generateCourseTitle(rec))
    /\ UNCHANGED <<rec, roomExtracted, roomFallback, others_fn>>

InitFn ==
    /\ FnInit /\ ValidIdle /\ CorrIdle /\ NormIdle /\ AppIdle /\ PipeIdle
    /\ TokIdle /\ RetryIdle /\ LimitIdle /\ ThrottleIdle /\ AuthIdle
    /\ TimeIdle

NextFn == CallExtractRoom \/ CallRoomFallback \/ CallCourseTitle

SpecFn == InitFn /\ [][NextFn]_vars

\* the match of the earliest pattern of the documented list, Null when no
\* pattern of the list matches
documentedRoom(rawText) ==
    IF Falsy(rawText) THEN Null
    ELSE firstRoomMatch(rawText, extractorRoomPatterns, 1)

\* C15: the room a re-scan of the raw text returns is the match of the
\* earliest pattern of the documented list that matches anywhere in the
\* text, wherever in the text the matches are, and this is so at both call
\* sites: extractRoomFromRawData and the scan of generateRoomFallback.
C15_FirstCandidateWins ==
    /\ roomExtracted # None => Val(roomExtracted) = documentedRoom(rawTextOf(rec))
    /\ (roomFallback # None /\ documentedRoom(rawTextOf(rec)) # Null) =>
            Val(roomFallback) = documentedRoom(rawTextOf(rec))

\* C16: for a course code DEPT NUM the generated title holds the name the
\* department table has for DEPT, together with NUM, for every DEPT that
\* is a key of the table; the raw DEPT stands in the title only when it is
\* not a key.
C16_TitleFromDepartmentTable ==
    (titleGenerated # None /\ ~Falsy(rec.course) /\ courseMatch(rec.course) # <<>>) =>
        Let(courseMatch(rec.course), LAMBDA m :
            /\ includes(Val(titleGenerated), m[2])
            /\ IF m[1] \in DOMAIN DEPARTMENT_NAMES
               THEN StartsAt(Val(titleGenerated), 1, DEPARTMENT_NAMES[m[1]])
               ELSE StartsAt(Val(titleGenerated), 1, m[1]))

----------------------------------------------------------------------------
(* The summary of a snapshot *)

RECURSIVE sumCounts(_, _)
\* the sum of the counts of a breakdown, from entry k on
sumCounts(breakdown, k) ==
    IF k > Len(breakdown) THEN 0
    ELSE breakdown[k][2] + sumCounts(breakdown, k + 1)

\* C17: the summary of a snapshot is that of its final item list:
\* total_items is the number of items, the breakdown has one key for each
\* distinct semester of the items and its counts sum to total_items,
\* unique_courses and unique_faculty are the numbers of distinct course
\* codes and of distinct faculty names of the items, neither above
\* total_items.
C17_SummaryConsistent ==
    snapshot # None =>
        LET items == Val(snapshot).items
            summary == Val(Val(snapshot).summary)
            breakdown == summary.semester_breakdown
            idx == 1..Len(items)
            keys == {breakdown[k][1] : k \in 1..Len(breakdown)}
        IN  /\ summary.total_items = Len(items)
            /\ sumCounts(breakdown, 1) = summary.total_items
            /\ Cardinality(keys) = Len(breakdown)
            /\ Cardinality(keys) = Cardinality({items[i].semester : i \in idx})
            /\ \A k \in 1..Len(breakdown) :
                  breakdown[k][2] =
                      Cardinality({i \in idx : semesterOf(items[i]) = breakdown[k][1]})
            /\ summary.unique_courses = Cardinality({items[i].course : i \in idx})
            /\ summary.unique_faculty =
                  Cardinality({items[i].faculty : i \in idx} \ {Undef})
            /\ summary.unique_courses <= summary.total_items
            /\ summary.unique_faculty <= summary.total_items

\* a record was dropped as a duplicate and the two items left are of two
\* semesters
C17_Witness ==
    /\ snapshot # None
    /\ Len(records) = 3
    /\ Val(Val(snapshot).summary).total_items = 2
    /\ Len(Val(Val(snapshot).summary).semester_breakdown) = 2
    /\ Val(Val(snapshot).summary).unique_courses = 2
    /\ Val(Val(snapshot).summary).unique_faculty = 2

----------------------------------------------------------------------------
(* The guarded operations of the dashboard *)

GuardedOperations ==
    {"loadLatestTimetable", "runScraper", "runScraperWithSemesters",
     "handleSaveSemesters"}

RECURSIVE pendingCalls(_)
\* the calls of the set S that are awaited, each with its multiplicity
pendingCalls(S) ==
    IF S = {} THEN 0
    ELSE LET c == CHOOSE x \in S : TRUE
         IN  calls[c] + pendingCalls(S \ {c})

\* the runs of guarded operations that have started and not yet finished:
\* a run is at exactly one of its awaits
inFlight == pendingCalls({c \in CallSet : c.fn \in GuardedOperations})

\* C18: at most one guarded operation (manual scrape, auto-run scrape after
\* a semester save, semester update, timetable load) is in flight at any
\* time, whatever the order of the clicks, the auto-run timer and the API
\* completions.
C18_MutualExclusion == inFlight <= 1

----------------------------------------------------------------------------
(* Specification SpecAppFair: the dashboard with its event loop.  A request *)
(* of apiService settles (axios gives up after its timeout), the           *)
(* continuation of a settled await is run, and a timer that is due fires.  *)
(* Nothing makes the user click.                                           *)

\* what the event loop does by itself
Completion ==
    \/ LoadLatestTimetableDone \/ LoadConfigDone \/ CheckStatusDone
    \/ ScrapeResponse \/ ScrapeStatusDone
    \/ UpdateSemestersResponse \/ SaveLoadConfigDone
    \/ AutoRunTimer

SpecAppFair == SpecApp /\ WF_vars(Completion)

\* one of the loading flags is set
busy ==
    isLoading \/ operationInProgress \/ isScraperRunning \/ isSemesterUpdateRunning

\* C19: no loading flag stays set: once the calls of the guarded operations
\* have settled, with a success, an unsuccessful response or an exception,
\* isLoading, operationInProgress, isScraperRunning and
\* isSemesterUpdateRunning are false again.
C19_NoStuckLoading == busy ~> (~busy /\ inFlight = 0)

\* a scrape was rejected, nothing is awaited any more and no flag is set
C19_Witness ==
    /\ status = "error"
    /\ message = "Failed to run scraper"
    /\ inFlight = 0
    /\ ~busy

\* the request of the auto-run: runScraperWithSemesters at its await of
\* apiService.runScraper
autoScrape == Call("runScraperWithSemesters", "runScraper", <<>>)

\* C20: a timer for the auto-run is set only in the step that ends a
\* semester update which succeeded with a non-empty list, and that step
\* clears the timetable data; the timer fires in the end, and when it
\* fires the scrape request is issued, with no click; no other step issues
\* the request of the auto-run, so that an update with an empty list and
\* a failed update are followed by none.
C20_AutoScrapeAfterSave ==
    /\ [][(\E cl \in Closures : timers'[cl] > timers[cl]) =>
            /\ \E c \in CallSet :
                  /\ c.fn = "handleSaveSemesters" /\ c.at = "loadConfig"
                  /\ calls'[c] < calls[c]
                  /\ Len(c.arg.newSemesters) > 0
            /\ timetableData' = None]_vars
    /\ [][(\E cl \in Closures : timers'[cl] < timers[cl]) =>
            /\ calls'[autoScrape] = calls[autoScrape] + 1
            /\ clicks' = clicks]_vars
    /\ [][calls'[autoScrape] > calls[autoScrape] =>
            \E cl \in Closures : timers'[cl] < timers[cl]]_vars
    /\ (\E cl \in Closures : timers[cl] > 0) ~> (\A cl \in Closures : timers[cl] = 0)

(***************************************************************************)
(* The refusals and failures of the dashboard's operations.                *)
(***************************************************************************)

\* disabled={isScraperRunning || operationInProgress} of the Run Scraper
\* button
runScraperDisabled == isScraperRunning \/ operationInProgress

\* a step in which the Run Scraper button is clicked: the other buttons
\* open or close the semester manager
runScraperClicked ==
    /\ clicks' = clicks + 1
    /\ showSemesterManager' = showSemesterManager
    /\ ~runScraperDisabled

NoSemestersMessage ==
    "No semesters configured. Please add semesters before running the scraper."

\* C21: a manual scrape is refused when no semesters are configured: a click
\* on Run Scraper while the configured semester filter is empty or missing
\* sends no request, sets the status to "error" with the "No semesters
\* configured" message, and leaves timetableData, isScraperRunning, isLoading
\* and operationInProgress as they are.
C21_RefusedWithoutSemesters ==
    [][(runScraperClicked /\ filterEmpty(config)) =>
          /\ calls' = calls
          /\ status' = "error"
          /\ message' = NoSemestersMessage
          /\ timetableData' = timetableData
          /\ isScraperRunning' = isScraperRunning
          /\ isLoading' = isLoading
          /\ operationInProgress' = operationInProgress]_vars

\* a refused scrape with loaded data of two items still in the state
C21_Witness ==
    /\ status = "error" /\ message = NoSemestersMessage
    /\ filterEmpty(config)
    /\ timetableData = Some(DataTwo)
    /\ \A c \in CallSet : calls[c] = 0
    /\ ~isLoading /\ ~isScraperRunning /\ ~operationInProgress

\* a step in which the scrape request of fn settles and the scrape ends
\* without awaiting checkStatus: the response was unsuccessful or the request
\* threw
scrapeFailed(fn) ==
    /\ calls'[Call(fn, "runScraper", <<>>)] < calls[Call(fn, "runScraper", <<>>)]
    /\ calls'[Call(fn, "checkStatus", <<>>)] = calls[Call(fn, "checkStatus", <<>>)]

\* a step in which the update request of a save settles and the save ends
\* without awaiting loadConfig
updateFailed(c) ==
    /\ c.fn = "handleSaveSemesters" /\ c.at = "updateSemesters"
    /\ calls'[c] < calls[c]
    /\ calls'[Call(c.fn, "loadConfig", c.arg)] = calls[Call(c.fn, "loadConfig", c.arg)]

\* C22: a failed scrape discards the displayed timetable: whenever a scrape
\* ends with an unsuccessful response or an exception, timetableData becomes
\* null and the status becomes "error", whatever data was loaded before; a
\* failed semester update leaves timetableData as it is.
C22_FailedScrapeDiscardsData ==
    /\ [][(\E fn \in Scrapers : scrapeFailed(fn)) =>
              timetableData' = None /\ status' = "error"]_vars
    /\ [][(\E c \in CallSet : updateFailed(c)) =>
              timetableData' = timetableData]_vars

\* a scrape that ended with the server's error text
C22_Witness ==
    /\ status = "error" /\ message = "No emails found"
    /\ timetableData = None
    /\ ~isScraperRunning /\ ~isLoading /\ ~operationInProgress
    /\ \A fn \in Scrapers : calls[Call(fn, "runScraper", <<>>)] = 0

(***************************************************************************)
(* The API client: retryRequest around the requests of the axios instance. *)
(* An attempt is one call of requestFn, which awaits a request of the      *)
(* instance and returns the data of the response; a request that fails is  *)
(* rejected with what the instance's response interceptor makes of the     *)
(* axios error.  A response of 401 reloads the page and is not among the   *)
(* answers.                                                                *)
(***************************************************************************)

MAX_RETRIES == 3
RETRY_DELAY == 1000

\* the services that call retryRequest, and the maxRetries each passes
RetryCallers == {"getGmailAuthUrl", "runScraper", "updateConfiguration"}
maxRetriesOf(service) == IF service = "runScraper" THEN 1 ELSE MAX_RETRIES

\* what a request can meet: a response of 2xx with data, a response with
\* another status, no response
ErrorStatuses == {400, 404, 429, 500, 503}
Answers ==
    {[kind |-> "ok", status |-> 200, data |-> d] : d \in {"d1", "d2"}}
    \cup {[kind |-> "http", status |-> s, data |-> Undef] : s \in ErrorStatuses}
    \cup {[kind |-> "network", status |-> 0, data |-> Undef]}

\* the error axios rejects a request with
AxiosError(answer) ==
    [message |-> IF answer.kind = "http"
                 THEN "Request failed with status code " \o ToString(answer.status)
                 ELSE "Network Error",
     code |-> IF answer.kind = "http" THEN "ERR_BAD_RESPONSE" ELSE "ERR_NETWORK",
     response |-> IF answer.kind = "http" THEN Some([status |-> answer.status])
                  ELSE None]

\* the response interceptor's rejection handler: a new Error that carries
\* the status, the code and the details
responseRejected(error) ==
    [message |-> error.message,
     status |-> IF error.response = None THEN None
                ELSE Some(Val(error.response).status),
     code |-> error.code]

\* axiosError.response?.status
responseStatus(error) ==
    IF "response" \in DOMAIN error /\ error.response # None
    THEN Some(Val(error.response).status)
    ELSE None

\* axiosError.response?.status && axiosError.response.status < 500
clientError(error) ==
    /\ responseStatus(error) # None
    /\ Val(responseStatus(error)) # 0
    /\ Val(responseStatus(error)) < 500

\* what awaiting requestFn() yields for an answer: the body of the
\* response, or the rejection
requestFn(answer) ==
    IF answer.kind = "ok"
    THEN [ok |-> TRUE, value |-> [data |-> answer.data]]
    ELSE [ok |-> FALSE, value |-> responseRejected(AxiosError(answer))]

MaxRetriesExceeded == [message |-> "Max retries exceeded"]

RetryInit ==
    /\ caller \in RetryCallers
    /\ attempt = 0 /\ tries = 0
    /\ outcomes = <<>> /\ waits = <<>>
    /\ rpc = "called" /\ result = None

\* the head of the for loop with attempt = a: requestFn is called, or the
\* loop is left
enterLoop(a) ==
    /\ attempt' = a
    /\ IF a <= maxRetriesOf(caller)
       THEN /\ tries' = tries + 1
            /\ rpc' = "calling"
            /\ result' = result
       ELSE /\ tries' = tries
            /\ rpc' = "rejected"
            /\ result' = Some(MaxRetriesExceeded)

\* retryRequest from its call to its first await
StartRetry ==
    /\ rpc = "called"
    /\ enterLoop(1)
    /\ UNCHANGED <<caller, outcomes, waits, others_retry>>

\* the attempt settles without the test attempt === maxRetries
SettleAttempt_noLastCheck ==
    /\ rpc = "calling"
    /\ \E answer \in Answers :
          LET r == requestFn(answer)
          IN  /\ outcomes' = Append(outcomes, answer)
              /\ IF r.ok
                 THEN rpc' = "returned" /\ result' = Some(r.value) /\ waits' = waits
                 ELSE IF clientError(r.value)
                 THEN rpc' = "rejected" /\ result' = Some(r.value) /\ waits' = waits
                 ELSE /\ rpc' = "waiting"
                      /\ waits' = Append(waits, RETRY_DELAY * attempt)
                      /\ result' = result
    /\ UNCHANGED <<caller, attempt, tries, others_retry>>

\* the attempt settles: return await requestFn(), or the catch block up to
\* its throw or its await of the timer
SettleAttempt ==
    /\ rpc = "calling"
    /\ \E answer \in Answers :
          LET r == requestFn(answer)
          IN  /\ outcomes' = Append(outcomes, answer)
              /\ IF r.ok
                 THEN rpc' = "returned" /\ result' = Some(r.value) /\ waits' = waits
                 ELSE IF clientError(r.value)
                 THEN rpc' = "rejected" /\ result' = Some(r.value) /\ waits' = waits
                 ELSE IF attempt = maxRetriesOf(caller)
                 THEN rpc' = "rejected" /\ result' = Some(r.value) /\ waits' = waits
                 ELSE /\ rpc' = "waiting"
                      /\ waits' = Append(waits, RETRY_DELAY * attempt)
                      /\ result' = result
    /\ UNCHANGED <<caller, attempt, tries, others_retry>>

\* the timer of the delay fires and the loop goes on
RetryTimer ==
    /\ rpc = "waiting"
    /\ enterLoop(attempt + 1)
    /\ UNCHANGED <<caller, outcomes, waits, others_retry>>

InitRetry ==
    /\ RetryInit /\ ValidIdle /\ CorrIdle /\ NormIdle /\ AppIdle /\ PipeIdle
    /\ TokIdle /\ FnIdle /\ LimitIdle /\ ThrottleIdle /\ AuthIdle
    /\ TimeIdle

NextRetry == StartRetry \/ SettleAttempt \/ RetryTimer

SpecRetry == InitRetry /\ [][NextRetry]_vars

\* every attempt terminates (the instance has a timeout) and timers fire
SpecRetryFair == SpecRetry /\ WF_vars(NextRetry)

retryEnded == rpc \in {"returned", "rejected"}

\* C23: retryRequest calls the request function at most maxRetries times,
\* returns the result of the first successful attempt without further
\* attempts, and after the maxRetries-th failed attempt rejects with that
\* attempt's error; it terminates when every attempt terminates.  A scrape
\* request, with maxRetries = 1, is attempted exactly once.
C23_BoundedRetry ==
    /\ [](tries <= maxRetriesOf(caller))
    /\ [](rpc = "returned" =>
            /\ outcomes[tries].kind = "ok"
            /\ result = Some([data |-> outcomes[tries].data])
            /\ \A k \in 1..(tries - 1) : outcomes[k].kind # "ok")
    /\ [](rpc = "rejected" /\ tries = maxRetriesOf(caller) =>
            /\ outcomes[tries].kind # "ok"
            /\ result = Some(requestFn(outcomes[tries]).value))
    /\ [][retryEnded => tries' = tries /\ rpc' = rpc /\ result' = result]_vars
    /\ <>retryEnded
    /\ [](caller = "runScraper" /\ retryEnded => tries = 1 /\ waits = <<>>)

\* three failed attempts, the third one's error thrown
C23_Witness ==
    /\ rpc = "rejected" /\ tries = MAX_RETRIES
    /\ outcomes = << [kind |-> "network", status |-> 0, data |-> Undef],
                     [kind |-> "http", status |-> 500, data |-> Undef],
                     [kind |-> "http", status |-> 503, data |-> Undef] >>
    /\ result = Some([message |-> "Request failed with status code 503",
                      status |-> Some(503), code |-> "ERR_BAD_RESPONSE"])

\* the attempt that has just settled
lastAnswer == outcomes'[Len(outcomes')]
attemptSettled == Len(outcomes') > Len(outcomes)

\* C24: an attempt that fails with a response status in the 4xx range is
\* rethrown at once, with no further attempt and no delay; a failure with
\* a status of 5xx or with no response is retried after a delay of
\* delay * attempt while attempts remain.
C24_ClientErrorsNotRetried ==
    /\ [][(/\ attemptSettled /\ lastAnswer.kind = "http"
            /\ lastAnswer.status >= 400 /\ lastAnswer.status < 500) =>
              /\ rpc' = "rejected"
              /\ result' = Some(requestFn(lastAnswer).value)
              /\ waits' = waits]_vars
    /\ [][(/\ attemptSettled
            /\ \/ lastAnswer.kind = "network"
               \/ lastAnswer.kind = "http" /\ lastAnswer.status >= 500
            /\ attempt < maxRetriesOf(caller)) =>
              /\ rpc' = "waiting"
              /\ waits' = Append(waits, RETRY_DELAY * attempt)]_vars

(***************************************************************************)
(* The API client: the blocking rate limiter in front of updateSemesters   *)
(* and runScraper.  Time is Date.now() in milliseconds; the clock does not *)
(* run backwards.  An action is a service call from its start to its      *)
(* await of the request; what follows the await returns the response's     *)
(* data and does not touch the limiter.                                    *)
(***************************************************************************)

minInterval == 1000

MaxTicks == 4
MaxApiCalls == 3

\* Date.now() when the page is loaded
PageLoaded == 1000000
\* the milliseconds that can pass between two events of the model
TickSteps == {1, 499, 500}

LimitedEndpoints == {"/api/config/semesters", "/api/scrape"}

\* lastCall && (now - lastCall) < this.minInterval, for any endpoint's
\* last call
shouldBlock_anyEndpoint(endpoint) ==
    \E e \in LimitedEndpoints :
        /\ lastCalls[e] # None
        /\ Val(lastCalls[e]) # 0
        /\ now - Val(lastCalls[e]) < minInterval

\* lastCall && (now - lastCall) < this.minInterval
shouldBlock(endpoint) ==
    /\ lastCalls[endpoint] # None
    /\ Val(lastCalls[endpoint]) # 0
    /\ now - Val(lastCalls[endpoint]) < minInterval

LimitInit ==
    /\ now = PageLoaded
    /\ lastCalls = [e \in LimitedEndpoints |-> None]
    /\ sent = <<>>
    /\ thrown = None
    /\ ticks = 0 /\ ncalls = 0

\* time passes
Tick ==
    /\ ticks < MaxTicks
    /\ ticks' = ticks + 1
    /\ \E d \in TickSteps : now' = now + d
    /\ UNCHANGED <<lastCalls, sent, thrown, ncalls, others_limit>>

\* a service call behind the limiter: shouldBlock, then the throw or the
\* request
limitedCall(endpoint, refusal) ==
    /\ ncalls' = ncalls + 1
    /\ IF shouldBlock(endpoint)
       THEN /\ thrown' = Some(refusal)
            /\ UNCHANGED <<lastCalls, sent>>
       ELSE /\ lastCalls' = [lastCalls EXCEPT ![endpoint] = Some(now)]
            /\ sent' = Append(sent, [endpoint |-> endpoint, at |-> now])
            /\ thrown' = None
    /\ UNCHANGED <<now, ticks, others_limit>>

\* apiService.updateSemesters
UpdateSemestersCall ==
    /\ ncalls < MaxApiCalls
    /\ limitedCall("/api/config/semesters",
                   "Please wait before updating semesters again")

\* apiService.runScraper
RunScraperCall ==
    /\ ncalls < MaxApiCalls
    /\ limitedCall("/api/scrape", "Please wait before running the scraper again")

InitLimit ==
    /\ LimitInit /\ ValidIdle /\ CorrIdle /\ NormIdle /\ AppIdle /\ PipeIdle
    /\ TokIdle /\ FnIdle /\ RetryIdle /\ ThrottleIdle /\ AuthIdle
    /\ TimeIdle

NextLimit == Tick \/ UpdateSemestersCall \/ RunScraperCall

SpecLimit == InitLimit /\ [][NextLimit]_vars

\* the requests sent to an endpoint
sentTo(endpoint) == {k \in DOMAIN sent : sent[k].endpoint = endpoint}

\* a step that is a call of the service behind endpoint: the other service
\* leaves the endpoint's refusal text and record alone
calledOn(endpoint) ==
    /\ ncalls' = ncalls + 1
    /\ \/ sentTo(endpoint) # {k \in DOMAIN sent' : sent'[k].endpoint = endpoint}
       \/ /\ thrown' # None
          /\ (endpoint = "/api/scrape") =
                (Val(thrown') = "Please wait before running the scraper again")

\* C25: for each endpoint, any two calls that shouldBlock lets through are
\* at least minInterval apart; a call arriving sooner is rejected with an
\* error before any request is sent and does not change the recorded
\* last-call time; calls to different endpoints do not affect each other.
C25_BlockingRateLimiter ==
    /\ [](\A i, j \in DOMAIN sent :
            (i < j /\ sent[i].endpoint = sent[j].endpoint) =>
                sent[j].at - sent[i].at >= minInterval)
    /\ [][\A e \in LimitedEndpoints : calledOn(e) =>
            /\ (thrown' # None) <=>
                  (\E k \in sentTo(e) : now - sent[k].at < minInterval)
            /\ thrown' # None => (sent' = sent /\ lastCalls' = lastCalls)
            /\ thrown' = None =>
                  sent' = Append(sent, [endpoint |-> e, at |-> now])
            /\ \A o \in LimitedEndpoints \ {e} : lastCalls'[o] = lastCalls[o]]_vars

\* a scrape refused 999 ms after the last one, while a semester update in
\* between was let through
C25_Witness ==
    /\ Len(sent) = 2
    /\ sent[1].endpoint = "/api/scrape"
    /\ sent[2].endpoint = "/api/config/semesters"
    /\ now - sent[1].at = minInterval - 1
    /\ thrown = Some("Please wait before running the scraper again")
    /\ lastCalls["/api/scrape"] = Some(sent[1].at)

(***************************************************************************)
(* The API client: the throttling rate limiter of the request interceptor. *)
(* A request is released when throttle has returned: the rest of the       *)
(* interceptor runs without an await.  A timer fires when its delay has    *)
(* passed or later, the timers in the order of their due times.            *)
(***************************************************************************)

RATE_LIMIT_INTERVAL == 1000

ThrottledUrls == {"/api/scrape", "/api/config"}

ThrottleInit ==
    /\ wallClock = PageLoaded
    /\ limiterCalls = [u \in ThrottledUrls |-> None]
    /\ released = <<>>
    /\ sleepers = <<>>
    /\ elapsed = 0 /\ issued = 0

\* time passes
Advance ==
    /\ elapsed < MaxTicks
    /\ elapsed' = elapsed + 1
    /\ \E d \in TickSteps : wallClock' = wallClock + d
    /\ UNCHANGED <<limiterCalls, released, sleepers, issued, others_throttle>>

\* this.calls.set(endpoint, Date.now()), and the interceptor goes on
release(url) ==
    /\ limiterCalls' = [limiterCalls EXCEPT ![url] = Some(wallClock)]
    /\ released' = Append(released, [url |-> url, at |-> wallClock])

\* a request enters the interceptor: throttle to its await, or to its end
IssueRequest ==
    /\ issued < MaxApiCalls
    /\ issued' = issued + 1
    /\ \E url \in ThrottledUrls :
          LET lastCall == limiterCalls[url]
          IN  IF /\ lastCall # None /\ Val(lastCall) # 0
                 /\ wallClock - Val(lastCall) < RATE_LIMIT_INTERVAL
              THEN /\ sleepers' =
                        Append(sleepers,
                               [url |-> url,
                                due |-> wallClock + (RATE_LIMIT_INTERVAL
                                                     - (wallClock - Val(lastCall)))])
                   /\ UNCHANGED <<limiterCalls, released>>
              ELSE /\ release(url)
                   /\ UNCHANGED sleepers
    /\ UNCHANGED <<wallClock, elapsed, others_throttle>>

\* the sleepers without the k-th
without(s, k) == SubSeq(s, 1, k - 1) \o SubSeq(s, k + 1, Len(s))

\* the timer that fires next: the earliest due, the earliest set among them
nextTimer ==
    CHOOSE k \in DOMAIN sleepers :
        \A j \in DOMAIN sleepers :
            \/ sleepers[k].due < sleepers[j].due
            \/ sleepers[k].due = sleepers[j].due /\ k <= j

\* the timer of a waiting request fires: throttle after its await
WakeUp ==
    /\ sleepers # <<>>
    /\ sleepers[nextTimer].due <= wallClock
    /\ release(sleepers[nextTimer].url)
    /\ sleepers' = without(sleepers, nextTimer)
    /\ UNCHANGED <<wallClock, elapsed, issued, others_throttle>>

InitThrottle ==
    /\ ThrottleInit /\ ValidIdle /\ CorrIdle /\ NormIdle /\ AppIdle
    /\ PipeIdle /\ TokIdle /\ FnIdle /\ RetryIdle /\ LimitIdle /\ AuthIdle
    /\ TimeIdle

NextThrottle == Advance \/ IssueRequest \/ WakeUp

SpecThrottle == InitThrottle /\ [][NextThrottle]_vars

\* C26: with the throttle of the request interceptor, any two requests to
\* the same URL are released at least RATE_LIMIT_INTERVAL apart, also when
\* a request arrives while another one is waiting in throttle.
C26_ThrottleSpacing ==
    \A i, j \in DOMAIN released :
        (i < j /\ released[i].url = released[j].url) =>
            released[j].at - released[i].at >= RATE_LIMIT_INTERVAL

(***************************************************************************)
(* AuthProvider.  The page can be loaded again (a reload, the redirect of  *)
(* the OAuth flow): the state in memory starts anew, the entry of          *)
(* localStorage stays.  loginWithGmail sets loading only, and is left out. *)
(***************************************************************************)

MaxLoads == 2
MaxAuthEvents == 3

Users == {[id |-> "1", email |-> "a@szabist.pk"], [id |-> "2", email |-> "b@szabist.pk"]}

\* JSON.stringify of a user
stringify(u) == "{\"id\":\"" \o u.id \o "\",\"email\":\"" \o u.email \o "\"}"

\* JSON.parse of an entry: None when it throws
parse(s) ==
    IF \E u \in Users : stringify(u) = s
    THEN Some(CHOOSE u \in Users : stringify(u) = s)
    ELSE None

\* what localStorage can hold when the page is first loaded
StoredInputs == {None, Some("{\"id\":\"1\""),
                 Some(stringify([id |-> "1", email |-> "a@szabist.pk"]))}

\* window.location.search: no auth parameter, auth=error, auth=success
\* with the user's id and email
UrlInputs ==
    {[auth |-> "none", user |-> None], [auth |-> "error", user |-> None]}
    \cup {[auth |-> "success", user |-> Some(u)] : u \in Users}
NoParams == [auth |-> "none", user |-> None]

\* the data of a message event, and its origin
MessageInputs ==
    {[type |-> "GMAIL_AUTH_SUCCESS", user |-> Some(u)] : u \in Users}
    \cup {[type |-> "GMAIL_AUTH_ERROR", user |-> None],
          [type |-> "OTHER", user |-> None]}
Origins == {"http://localhost:5000", "http://192.168.100.250:5000",
            "https://accounts.google.com"}

\* isAllowedOrigin
isAllowedOrigin(origin) ==
    \/ StartsAt(origin, 1, "http://localhost:")
    \/ StartsAt(origin, 1, "http://127.0.0.1:")
    \/ StartsAt(origin, 1, "http://192.168.")

\* what apiService.login answers: a user, no user, or it throws
LoginResponses ==
    {[kind |-> "ok", user |-> Some(u)] : u \in Users}
    \cup {[kind |-> "fail", user |-> None], [kind |-> "throw", user |-> None]}

\* value.isAuthenticated
isAuthenticated == user # None

AuthInit ==
    /\ user = None /\ loading = TRUE
    /\ storedUser \in StoredInputs
    /\ urlParams \in UrlInputs
    /\ effectRan = FALSE /\ listening = FALSE /\ restored = FALSE
    /\ pendingLogins = 0 /\ loads = 1 /\ authEvents = 0

\* the page is loaded again
PageLoad ==
    /\ loads < MaxLoads
    /\ loads' = loads + 1
    /\ urlParams' \in UrlInputs
    /\ user' = None /\ loading' = TRUE
    /\ effectRan' = FALSE /\ listening' = FALSE
    /\ pendingLogins' = 0
    /\ UNCHANGED <<storedUser, restored, authEvents, others_auth>>

\* the mount effect
MountEffect ==
    /\ ~effectRan
    /\ effectRan' = TRUE
    /\ loading' = FALSE
    /\ urlParams' = NoParams
    /\ IF urlParams.auth = "success"
       THEN /\ user' = urlParams.user
            /\ storedUser' = Some(stringify(Val(urlParams.user)))
            /\ UNCHANGED <<listening, restored>>
       ELSE IF urlParams.auth = "error"
       THEN UNCHANGED <<user, storedUser, listening, restored>>
       ELSE /\ IF storedUser # None
               THEN IF parse(Val(storedUser)) # None
                    THEN user' = parse(Val(storedUser)) /\ storedUser' = storedUser
                    ELSE user' = user /\ storedUser' = None
               ELSE UNCHANGED <<user, storedUser>>
            /\ listening' = TRUE
            /\ restored' = TRUE
    /\ UNCHANGED <<pendingLogins, loads, authEvents, others_auth>>

\* handleGmailAuthMessage
GmailAuthMessage ==
    /\ listening
    /\ authEvents < MaxAuthEvents
    /\ authEvents' = authEvents + 1
    /\ \E origin \in Origins, data \in MessageInputs :
          IF ~isAllowedOrigin(origin) THEN UNCHANGED <<user, storedUser, loading>>
          ELSE IF data.type = "GMAIL_AUTH_SUCCESS"
          THEN /\ user' = data.user
               /\ storedUser' = Some(stringify(Val(data.user)))
               /\ loading' = FALSE
          ELSE IF data.type = "GMAIL_AUTH_ERROR"
          THEN loading' = FALSE /\ UNCHANGED <<user, storedUser>>
          ELSE UNCHANGED <<user, storedUser, loading>>
    /\ UNCHANGED <<urlParams, effectRan, listening, restored, pendingLogins, loads,
                   others_auth>>

\* login to its await
Login ==
    /\ effectRan
    /\ authEvents < MaxAuthEvents
    /\ authEvents' = authEvents + 1
    /\ loading' = TRUE
    /\ pendingLogins' = pendingLogins + 1
    /\ UNCHANGED <<user, storedUser, urlParams, effectRan, listening, restored, loads,
                   others_auth>>

\* login after apiService.login settles
LoginSettles ==
    /\ pendingLogins > 0
    /\ pendingLogins' = pendingLogins - 1
    /\ \E response \in LoginResponses :
          IF response.kind = "ok"
          THEN /\ user' = response.user
               /\ storedUser' = Some(stringify(Val(response.user)))
          ELSE UNCHANGED <<user, storedUser>>
    /\ loading' = FALSE
    /\ UNCHANGED <<urlParams, effectRan, listening, restored, loads, authEvents,
                   others_auth>>

\* logout
Logout ==
    /\ effectRan
    /\ authEvents < MaxAuthEvents
    /\ authEvents' = authEvents + 1
    /\ user' = None
    /\ storedUser' = None
    /\ UNCHANGED <<loading, urlParams, effectRan, listening, restored, pendingLogins,
                   loads, others_auth>>

InitAuth ==
    /\ AuthInit /\ ValidIdle /\ CorrIdle /\ NormIdle /\ AppIdle /\ PipeIdle
    /\ TokIdle /\ FnIdle /\ RetryIdle /\ LimitIdle /\ ThrottleIdle
    /\ TimeIdle

NextAuth ==
    PageLoad \/ MountEffect \/ GmailAuthMessage \/ Login \/ LoginSettles \/ Logout

SpecAuth == InitAuth /\ [][NextAuth]_vars

\* the user in memory and the entry of localStorage agree
sessionAgrees ==
    \/ user = None /\ storedUser = None
    \/ user # None /\ storedUser = Some(stringify(Val(user)))

\* C27: once the initial session restore has completed, after every
\* sequence of login successes, Gmail auth successes (by message or by the
\* redirect's URL parameters), failed logins and logouts, the user in memory
\* and the 'user' entry of localStorage agree, isAuthenticated is true iff a
\* user is set, and after a logout both are cleared; a failed login or an
\* auth error message leaves both unchanged.
C27_AuthSessionConsistent ==
    /\ []((restored /\ effectRan) =>
            /\ sessionAgrees
            /\ isAuthenticated <=> (storedUser # None))
    /\ [][(authEvents' > authEvents /\ pendingLogins' = pendingLogins /\ user' = None
           /\ user # None) => storedUser' = None]_vars
    /\ [][(pendingLogins' < pendingLogins /\ loads' = loads /\ user' = user) =>
             storedUser' = storedUser]_vars

(***************************************************************************)
(* The room policy of the display.                                         *)
(***************************************************************************)

\* C28: on every path of room display and correction a room that is or
\* would be "TBD" is shown as "Online": the displayed room of a record is
\* never the literal "TBD".
C28_TbdShownAsOnline == cpc # "in" => shown.room # "TBD"

(***************************************************************************)
(* parseTimeToMinutes over time strings written around one clock clause.   *)
(***************************************************************************)

\* two decimal digits
twoDigits(n) == (IF n < 10 THEN "0" ELSE "") \o ToString(n)

\* the clock clauses: the hour as written and as a number, the minutes, the
\* white space, the period as written
ClockClauses ==
    [hour : 0..13, padded : BOOLEAN, minute : {0, 5, 30, 59},
     space : {"", " "}, period : {"AM", "PM", "am", "Pm"}]

clauseText(c) ==
    (IF c.padded THEN twoDigits(c.hour) ELSE ToString(c.hour))
    \o ":" \o twoDigits(c.minute) \o c.space \o c.period

\* what stands in front of the clause and behind it: no clock clause
ClausePrefixes == {"", "Mon ", "08:00 - "}
ClauseSuffixes == {"", " - 11:00 AM"}

\* strings without a clock clause
NoClauseInputs == {"", "-", "null", "TBD", "08:00", "8 AM", "8:0 AM", "0800 PM",
                   "TBD (Lab Session - 3 hours)"}

TimeInit ==
    /\ parsedMinutes = None
    /\ \/ /\ clause = None
          /\ timeInput \in NoClauseInputs
       \/ /\ clause \in {Some(c) : c \in ClockClauses}
          /\ \E pre \in ClausePrefixes, post \in ClauseSuffixes :
                timeInput = pre \o clauseText(Val(clause)) \o post

ParseTime ==
    /\ parsedMinutes = None
    /\ parsedMinutes' = Some(parseTimeToMinutes(timeInput))
    /\ UNCHANGED <<clause, timeInput, others_time>>

InitTime ==
    /\ TimeInit /\ ValidIdle /\ CorrIdle /\ NormIdle /\ AppIdle /\ PipeIdle
    /\ TokIdle /\ FnIdle /\ RetryIdle /\ LimitIdle /\ ThrottleIdle /\ AuthIdle

NextTime == ParseTime

SpecTime == InitTime /\ [][NextTime]_vars

\* the clause is H:MM AM/PM with H in 1..12 and MM in 00..59
wellFormed(c) == c.hour \in 1..12 /\ c.minute \in 0..59

isPM(c) == toUpperCase(c.period) = "PM"

====
